---------------------------- MODULE Spec2Model ----------------------------
(***************************************************************************)
(* The Solution / PoseSolution facade of pose_tracking_bin-bundle.js as a  *)
(* state machine.  One Solution object (wrapped by one PoseSolution), the  *)
(* browser pieces it touches (window globals, injected scripts, canvas,    *)
(* fetch) and the opaque WASM engine instances it drives.  Every `yield`   *)
(* of an async method is a point where another continuation may run, so    *)
(* each stretch of code between two yields is one action.                  *)
(***************************************************************************)
EXTENDS Integers, Sequences, FiniteSets, TLC

\* ------------------------------------------------------------------ bounds
MaxCalls == 2        \* initialize()/send()/processFrame() calls issued on the object
MaxDelete == 2       \* delete() calls on one engine instance
MaxLoads == 1        \* goog.loadModule calls the page makes after the bundle
MaxDepth == 1        \* goog.loadModule calls running inside one another
MaxBootstraps == 1   \* goog.bootstrap calls

\* ------------------------------------------------------- optional values
None == <<>>
Some(x) == <<x>>
IsSome(o) == o # <<>>
Val(o) == o[1]

\* 0 stands for a field that is still undefined; ids count from 1.
NoId == 0

\* ------------------------------------------------------------- constants
NUMBER == 0

PoseFiles ==
    << "pose_tracking_solution_packed_assets_loader.js",
       "pose_tracking_solution_wasm_bin.js" >>
PoseGraph == [url |-> "pose_web.binarypb"]
PoseWants == << "pose_landmarks", "pose_rect" >>
PoseXref ==
    [calculatorType |-> "ThresholdingCalculator", calculatorIndex |-> 1,
     fieldName |-> "threshold"]
PoseOptions ==
    [k \in {"poseThreshold"} |-> [type |-> NUMBER, graphOptionXref |-> Some(PoseXref)]]

\* The SolutionConfig that PoseSolution's constructor builds.
PoseConfig ==
    [name |-> "pose", files |-> PoseFiles, graph |-> PoseGraph,
     options |-> Some(PoseOptions), onRegisterListeners |-> "pose"]

\* Two other SolutionConfig values a direct user of Solution can pass.  One
\* has a second graph option and an option without a graphOptionXref, and no
\* onRegisterListeners callback.  The other has no options map, and attaches
\* its listener from an array the user keeps.
SmoothXref ==
    [calculatorType |-> "SmoothingCalculator", calculatorIndex |-> 0,
     fieldName |-> "alpha"]
GenericOptions ==
    [k \in {"poseThreshold", "smoothing", "selfieMode"} |->
        IF k = "poseThreshold" THEN [type |-> NUMBER, graphOptionXref |-> Some(PoseXref)]
        ELSE IF k = "smoothing" THEN [type |-> NUMBER, graphOptionXref |-> Some(SmoothXref)]
        ELSE [type |-> NUMBER, graphOptionXref |-> None]]
OptionsConfig ==
    [name |-> "options", files |-> PoseFiles, graph |-> PoseGraph,
     options |-> Some(GenericOptions), onRegisterListeners |-> "none"]
ListenerConfig ==
    [name |-> "listener", files |-> PoseFiles, graph |-> PoseGraph,
     options |-> None, onRegisterListeners |-> "user"]
Configs == {PoseConfig, OptionsConfig, ListenerConfig}

\* A config whose onRegisterListeners callback, besides attaching its
\* listener, calls setOptions({poseThreshold: 7}) of the Solution it is given to.
ReentrantConfig ==
    [name |-> "reentrant", files |-> PoseFiles, graph |-> PoseGraph,
     options |-> Some(PoseOptions), onRegisterListeners |-> "reentrant"]
CallbackOptions == << [key |-> "poseThreshold", value |-> 7] >>

\* ============================================================ goog (base.js)
\* The Closure loader the bundle starts with.  Its functions are operators
\* from one loader state g to the next; every call notes in g.last what it
\* was given, what it returned and whether it threw.  An exception is never
\* caught by the scripts that call the loader.

\* A string is the sequence of its characters, so that the identifier test
\* is computed.  The three module names of the bundle are cut to their last
\* segment.
TSLIB == << "t", "s", "l", "i", "b" >>
SOLUTIONS_API ==
    << "s", "o", "l", "u", "t", "i", "o", "n", "s", "_", "a", "p", "i" >>
POSE_TRACKING ==
    << "p", "o", "s", "e", "_", "t", "r", "a", "c", "k", "i", "n", "g" >>
GOOG == << "g", "o", "o", "g" >>
GOOG_MODULE == GOOG \o << ".", "m", "o", "d", "u", "l", "e" >>

\* An argument given where a name is expected: a string or something else.
Str(chars) == [isString |-> TRUE, chars |-> chars]
NotAString == [isString |-> FALSE, chars |-> << >>]

Letters ==
    { "a", "b", "c", "d", "e", "f", "g", "h", "i", "j", "k", "l", "m", "n",
      "o", "p", "q", "r", "s", "t", "u", "v", "w", "x", "y", "z",
      "A", "B", "C", "D", "E", "F", "G", "H", "I", "J", "K", "L", "M", "N",
      "O", "P", "Q", "R", "S", "T", "U", "V", "W", "X", "Y", "Z" }
Digits == { "0", "1", "2", "3", "4", "5", "6", "7", "8", "9" }

\* The pattern left out: every string with a character in it passes.
AnyIdentifier(chars) == Len(chars) > 0

\* /^[a-zA-Z_$][a-zA-Z0-9._$]*$/
VALID_MODULE_RE_(chars) ==
    /\ Len(chars) > 0
    /\ chars[1] \in Letters \cup { "_", "$" }
    /\ \A i \in 2 .. Len(chars) :
           chars[i] \in Letters \cup Digits \cup { ".", "_", "$" }

ModuleType == [ES6 |-> "es6", GOOG |-> "goog"]

\* An object a loader call hands out: the exports object of the id-th
\* goog.loadModule call, or the object of a namespace.
ExportsObject(id) == [kind |-> "exports", id |-> id]
NamespaceObject == [kind |-> "namespace", id |-> 0]

\* logged and load_ count the messages written to the console and the calls
\* of goog.debugLoader_.load_ made by the call; namespaces is the list given
\* to goog.bootstrap.
NoCallYet ==
    [fn |-> "none", arg |-> << >>, thrown |-> "none", returned |-> None,
     logged |-> 0, load_ |-> 0, namespaces |-> << >>]

\* base.js has run: nothing is registered, no module is being loaded.
GoogInit ==
    [useStrictRequires |-> FALSE,
     loadedModules_ |-> [n \in {} |-> None],
     implicitNamespaces_ |-> { GOOG_MODULE },
     global |-> { GOOG, GOOG_MODULE },
     moduleLoaderState_ |-> None,
     frames |-> << >>,
     exportsMade |-> 0,
     dependencies_ |-> [n \in {} |-> None],
     written_ |-> {},
     bootstraps |-> << >>,
     last |-> NoCallYet]

Put(f, key, value) ==
    [k \in DOMAIN f \cup { key } |-> IF k = key THEN value ELSE f[k]]

Returns(g, fn, arg, value) ==
    [g EXCEPT !.last = [@ EXCEPT !.fn = fn, !.arg = arg, !.thrown = "none",
                                 !.returned = value]]

Throws(g, fn, arg, message) ==
    [g EXCEPT !.last = [@ EXCEPT !.fn = fn, !.arg = arg, !.thrown = message,
                                 !.returned = None]]

\* An exception leaves every goog.loadModule that is running: the finally
\* block of each puts back the loader state it found, the outermost one last.
Unwind(g) ==
    IF g.last.thrown = "none"
    THEN g
    ELSE [g EXCEPT !.moduleLoaderState_ =
                       IF g.frames = << >>
                       THEN @
                       ELSE g.frames[1].previousState,
                   !.frames = << >>]

\* The call that starts now has logged nothing yet.
Calling(g) == [g EXCEPT !.last = NoCallYet]

isInGoogModuleLoader_(g) ==
    /\ IsSome(g.moduleLoaderState_)
    /\ Val(g.moduleLoaderState_).type = ModuleType.GOOG

\* The page has no $jscomp runtime: only the loader state says so.
isInEs6ModuleLoader_(g) ==
    /\ IsSome(g.moduleLoaderState_)
    /\ Val(g.moduleLoaderState_).type = ModuleType.ES6

isInModuleLoader_(g) == isInGoogModuleLoader_(g) \/ isInEs6ModuleLoader_(g)

\* goog.getObjectByName(name) != null
getObjectByName(g, name) == name \in g.global

\* The test left out: no name counts as declared.
isProvidedNever_(g, name) == FALSE
isProvided_(g, name) ==
    \/ name \in DOMAIN g.loadedModules_
    \/ /\ name \notin g.implicitNamespaces_
       /\ getObjectByName(g, name)

\* The names a dotted name lies under: "a.b.c" lies under "a.b" and "a".
ParentNamespaces(name) ==
    { SubSeq(name, 1, i - 1) : i \in { j \in 2 .. Len(name) : name[j] = "." } }

\* goog.exportPath_(name): the object of the name and of every name above it.
exportPath_(g, name) ==
    [g EXCEPT !.global = @ \cup { name } \cup ParentNamespaces(name)]

\* The loop walks up from the name and stops at the first name that has an
\* object already.
constructNamespace_(g, name) ==
    LET implicit ==
            { p \in ParentNamespaces(name) :
                \A q \in ParentNamespaces(name) \cup {p} :
                    Len(q) >= Len(p) => ~getObjectByName(g, q) }
    IN  exportPath_(
            [g EXCEPT !.implicitNamespaces_ = (@ \ { name }) \cup implicit],
            name)

goog_provide(g, name) ==
    IF isInModuleLoader_(g)
    THEN Throws(g, "goog.provide", name,
                "goog.provide cannot be used within a module.")
    ELSE IF isProvided_(g, name)
    THEN Throws(g, "goog.provide", name, "Namespace already declared.")
    ELSE Returns(constructNamespace_(g, name), "goog.provide", name, None)

\* The name is noted in the loader state before the test for a namespace
\* declared twice.
goog_module(g, name) ==
    IF ~name.isString \/ name.chars = << >> \/ ~VALID_MODULE_RE_(name.chars)
    THEN Throws(g, "goog.module", name.chars, "Invalid module identifier")
    ELSE IF ~isInGoogModuleLoader_(g)
    THEN Throws(g, "goog.module", name.chars,
                "Module has been loaded incorrectly.")
    ELSE IF Val(g.moduleLoaderState_).moduleName # << >>
    THEN Throws(g, "goog.module", name.chars,
                "goog.module may only be called once per module.")
    ELSE LET named ==
                 [g EXCEPT !.moduleLoaderState_ =
                     Some([Val(@) EXCEPT !.moduleName = name.chars])]
         IN  IF isProvided_(named, name.chars)
             THEN Throws(named, "goog.module", name.chars,
                         "Namespace already declared.")
             ELSE Returns(
                      [named EXCEPT !.implicitNamespaces_ = @ \ { name.chars }],
                      "goog.module", name.chars, None)

declareLegacyNamespace(g) ==
    IF ~isInGoogModuleLoader_(g)
    THEN Throws(g, "goog.module.declareLegacyNamespace", << >>,
                "goog.module.declareLegacyNamespace must be called from within a goog.module")
    ELSE IF Val(g.moduleLoaderState_).moduleName = << >>
    THEN Throws(g, "goog.module.declareLegacyNamespace", << >>,
                "goog.module must be called prior to goog.module.declareLegacyNamespace.")
    ELSE Returns(
             [g EXCEPT !.moduleLoaderState_ =
                 Some([Val(@) EXCEPT !.declareLegacyNamespace = TRUE])],
             "goog.module.declareLegacyNamespace", << >>, None)

\* The registry not consulted: nothing is found.
getInternalNothing_(g, name) == None
getInternal_(g, name) ==
    IF name \in DOMAIN g.loadedModules_
    THEN g.loadedModules_[name].exports
    ELSE IF name \notin g.implicitNamespaces_ /\ getObjectByName(g, name)
    THEN Some(NamespaceObject)
    ELSE None

\* goog.loadModule(moduleDef) up to its call of moduleDef.  The exports
\* object it makes is the next one; the state it found is kept for its
\* finally block.
ModuleDefs == { "function", "string", "object" }
goog_loadModule(g, moduleDef) ==
    IF moduleDef \in { "function", "string" }
    THEN [g EXCEPT
             !.frames = Append(@, [previousState |-> g.moduleLoaderState_,
                                   origExports |-> g.exportsMade + 1]),
             !.exportsMade = @ + 1,
             !.moduleLoaderState_ =
                 Some([moduleName |-> << >>, declareLegacyNamespace |-> FALSE,
                       type |-> ModuleType.GOOG]),
             !.last = [NoCallYet EXCEPT !.fn = "goog.loadModule"]]
    ELSE Throws(g, "goog.loadModule", << >>, "Invalid module definition")

\* goog.loadModule from the return of moduleDef: the module returns the
\* exports object it was given, or nothing.
ModuleReturns == { "exports", "undefined" }
moduleDefReturns(g, returned) ==
    LET frame == g.frames[Len(g.frames)]
        state == Val(g.moduleLoaderState_)
        moduleName == state.moduleName
        exports ==
            IF returned = "exports"
            THEN Some(ExportsObject(frame.origExports))
            ELSE None
        declared ==
            IF state.declareLegacyNamespace
            THEN constructNamespace_(g, moduleName)
            ELSE g
    IN  IF moduleName # << >>
        THEN [declared EXCEPT
                 !.loadedModules_ =
                     Put(@, moduleName,
                         [exports |-> exports, type |-> ModuleType.GOOG,
                          moduleId |-> moduleName]),
                 !.moduleLoaderState_ = frame.previousState,
                 !.frames = SubSeq(@, 1, Len(@) - 1),
                 !.last = [NoCallYet EXCEPT !.fn = "moduleDef"]]
        ELSE Throws(g, "goog.loadModule", << >>, "Invalid module name")

\* ------------------------------------------------------ goog.DebugLoader_
\* Every registered file provides one namespace and is known by it; it is a
\* plain goog.Dependency, loaded by a script element.
NewDependency(requires) ==
    [requires |-> requires, loading |-> FALSE, loaded_ |-> FALSE,
     loadCallbacks_ |-> << >>]

getPathFromDeps_(g, namespace) == namespace \in DOMAIN g.dependencies_

goog_addDependency(g, namespace, requires) ==
    Returns(
        [g EXCEPT !.dependencies_ = Put(@, namespace, NewDependency(requires))],
        "goog.addDependency", namespace, None)

\* The visit of load_: the files to load, each after the files it requires;
\* a file is marked as written when the visit enters it.
RECURSIVE visit(_, _, _)
RECURSIVE visitRequires(_, _, _, _)
visit(g, st, namespace) ==
    IF ~getPathFromDeps_(g, namespace)
    THEN [st EXCEPT !.thrown = "Bad dependency path or symbol"]
    ELSE IF namespace \in st.written_
    THEN st
    ELSE LET entered == [st EXCEPT !.written_ = @ \cup { namespace }]
             after ==
                 visitRequires(g, entered,
                               g.dependencies_[namespace].requires, 1)
         IN  IF after.thrown # "none"
             THEN after
             ELSE [after EXCEPT !.deps = Append(@, namespace)]

visitRequires(g, st, requires, i) ==
    IF i > Len(requires) \/ st.thrown # "none"
    THEN st
    ELSE visitRequires(
             g,
             IF isProvided_(g, requires[i]) THEN st
             ELSE visit(g, st, requires[i]),
             requires, i + 1)

\* loading_(dep) and dep.load(controller) for each file of the list: its
\* script element is added to the document.
RECURSIVE loadDeps_(_, _)
loadDeps_(g, depsToLoad_) ==
    IF depsToLoad_ = << >>
    THEN g
    ELSE loadDeps_(
             [g EXCEPT !.dependencies_[depsToLoad_[1]].loading = TRUE],
             Tail(depsToLoad_))

\* The result is the loader state and the message of the error thrown.
load_(g, namespace) ==
    IF ~getPathFromDeps_(g, namespace)
    THEN [g |-> [g EXCEPT !.last.logged = @ + 1, !.last.load_ = @ + 1],
          thrown |-> IF g.useStrictRequires
                     THEN "goog.require could not find"
                     ELSE "none"]
    ELSE LET visited ==
                 visit(g, [written_ |-> g.written_, deps |-> << >>,
                           thrown |-> "none"], namespace)
             marked ==
                 [g EXCEPT !.written_ = visited.written_,
                           !.last.load_ = @ + 1]
         IN  IF visited.thrown # "none"
             THEN [g |-> marked, thrown |-> visited.thrown]
             ELSE [g |-> loadDeps_(marked, visited.deps), thrown |-> "none"]

\* The finally block left out: the loader state stays put aside.
goog_requireNoFinally(g, namespace) ==
    IF isProvided_(g, namespace)
    THEN Returns(g, "goog.require", namespace,
                 IF isInModuleLoader_(g)
                 THEN getInternal_(g, namespace)
                 ELSE None)
    ELSE LET loaded ==
                 load_([g EXCEPT !.moduleLoaderState_ = None], namespace)
         IN  IF loaded.thrown # "none"
             THEN Throws(loaded.g, "goog.require", namespace, loaded.thrown)
             ELSE Returns(loaded.g, "goog.require", namespace, None)
\* The loader state is put aside for the time of load_ and put back in the
\* finally block.
goog_require(g, namespace) ==
    IF isProvided_(g, namespace)
    THEN Returns(g, "goog.require", namespace,
                 IF isInModuleLoader_(g)
                 THEN getInternal_(g, namespace)
                 ELSE None)
    ELSE LET moduleLoaderStateAtRequire == g.moduleLoaderState_
             loaded ==
                 load_([g EXCEPT !.moduleLoaderState_ = None], namespace)
             restored ==
                 [loaded.g EXCEPT
                     !.moduleLoaderState_ = moduleLoaderStateAtRequire]
         IN  IF loaded.thrown # "none"
             THEN Throws(restored, "goog.require", namespace, loaded.thrown)
             ELSE Returns(restored, "goog.require", namespace, None)

\* The callback called at once instead of through setTimeout.
resolveNow(g, b) ==
    IF g.bootstraps[b].cb
    THEN [g EXCEPT !.bootstraps[b].cb = FALSE,
                   !.bootstraps[b].calls = @ + 1]
    ELSE g
\* resolve() of bootstrap b: the callback goes to setTimeout once.
resolve(g, b) ==
    IF g.bootstraps[b].cb
    THEN [g EXCEPT !.bootstraps[b].cb = FALSE,
                   !.bootstraps[b].timeouts = @ + 1]
    ELSE g

\* The function bootstrap b gives to onLoad.
onLoadCallback(g, b) ==
    LET counted == [g EXCEPT !.bootstraps[b].loaded = @ + 1]
    IN  IF counted.bootstraps[b].loaded = Len(counted.bootstraps[b].namespaces)
        THEN resolve(counted, b)
        ELSE counted

\* goog.Dependency.prototype.onLoad
onLoad(g, namespace, b) ==
    IF g.dependencies_[namespace].loaded_
    THEN onLoadCallback(g, b)
    ELSE [g EXCEPT !.dependencies_[namespace].loadCallbacks_ = Append(@, b)]

RECURSIVE requireEach(_, _, _, _)
requireEach(g, b, namespaces, i) ==
    IF i > Len(namespaces)
    THEN Returns(g, "goog.bootstrap", << >>, None)
    ELSE LET required == goog_require(g, namespaces[i])
         IN  IF required.last.thrown # "none"
             THEN [required EXCEPT !.last.fn = "goog.bootstrap"]
             ELSE requireEach(onLoad(required, namespaces[i], b), b,
                              namespaces, i + 1)

goog_bootstrap(g, namespaces) ==
    LET b == Len(g.bootstraps) + 1
        given == [g EXCEPT !.last.namespaces = namespaces]
        begun ==
            [given EXCEPT !.bootstraps =
                Append(@, [namespaces |-> namespaces, loaded |-> 0,
                           cb |-> TRUE, timeouts |-> 0, calls |-> 0])]
    IN  IF namespaces = << >>
        THEN Returns(resolve(begun, b), "goog.bootstrap", << >>, None)
        ELSE IF \E i \in 1 .. Len(namespaces) :
                    ~getPathFromDeps_(g, namespaces[i])
        THEN Throws(given, "goog.bootstrap", << >>, "Unregonized namespace")
        ELSE requireEach(begun, b, namespaces, 1)

\* dep.loaded(): the callbacks waiting for the file are called in order.
RECURSIVE callEach(_, _)
callEach(g, callbacks) ==
    IF callbacks = << >>
    THEN g
    ELSE callEach(onLoadCallback(g, callbacks[1]), Tail(callbacks))

\* controller.loaded() when the script element of the file fires 'load'.
loaded_(g, namespace) ==
    callEach(
        [g EXCEPT !.dependencies_[namespace] =
            [@ EXCEPT !.loading = FALSE, !.loaded_ = TRUE,
                      !.loadCallbacks_ = << >>]],
        g.dependencies_[namespace].loadCallbacks_)

\* The timeout of bootstrap b expires: its callback is called.
timeout(g, b) ==
    [g EXCEPT !.bootstraps[b].timeouts = @ - 1,
              !.bootstraps[b].calls = @ + 1,
              !.last = [NoCallYet EXCEPT !.fn = "callback"]]

\* ------------------------------------------------------- the bundle's modules
\* The calls the bundle makes on the loader, in the order of the file.
\* goog.requireType returns {} and touches nothing; goog.exportSymbol names
\* the globals Solution, LANDMARK_CONNECTIONS and PoseSolution, which no
\* script of the page declares or requires here.
Call(fn, arg) == [fn |-> fn, arg |-> arg]
Bundle ==
    << Call("goog.loadModule", "function"),
       Call("goog.module", TSLIB),
       Call("moduleDef", "exports"),
       Call("goog.loadModule", "function"),
       Call("goog.module", SOLUTIONS_API),
       Call("goog.require", TSLIB),
       Call("moduleDef", "exports"),
       Call("goog.loadModule", "function"),
       Call("goog.module", POSE_TRACKING),
       Call("goog.require", TSLIB),
       Call("goog.require", SOLUTIONS_API),
       Call("moduleDef", "exports") >>

Run(g, call) ==
    Unwind(
        CASE call.fn = "goog.loadModule" ->
                 goog_loadModule(Calling(g), call.arg)
          [] call.fn = "goog.module" -> goog_module(Calling(g), Str(call.arg))
          [] call.fn = "goog.require" -> goog_require(Calling(g), call.arg)
          [] call.fn = "moduleDef" -> moduleDefReturns(Calling(g), call.arg))

\* The loader once the bundle's calls from the i-th on have been made.
RECURSIVE RunFrom(_, _)
RunFrom(g, i) ==
    IF i > Len(Bundle) \/ g.last.thrown # "none"
    THEN g
    ELSE RunFrom(Run(g, Bundle[i]), i + 1)

BundleLoaded == RunFrom(GoogInit, 1)

\* ------------------------------------------------------------ file locations
\* A string built from its characters.
RECURSIVE Join(_)
Join(chars) == IF chars = << >> THEN "" ELSE Head(chars) \o Join(Tail(chars))

\* String.prototype.lastIndexOf, counting from 1; 0 when there is none.
LastIndexOf(chars, ch) ==
    LET at == {i \in 1 .. Len(chars) : chars[i] = ch}
    IN  IF at = {} THEN 0 ELSE CHOOSE i \in at : \A j \in at : j <= i

\* getPackagePath() in a page: what comes before the last '/' of
\* window.location.pathname, and a '/'.
getPackagePath(pathname) ==
    Join(SubSeq(pathname, 1, LastIndexOf(pathname, "/") - 1)) \o "/"

\* The pathnames of the pages that load the bundle.
Pathnames == { << "/", "p" >>, << "/", "a", "/", "p" >>, << "/", "a", "/" >> }

\* The default that forgets the prefix.
defaultLocateFileBare(file, prefix) == file

defaultLocateFile(file, prefix) == prefix \o file

\* A locateFile of the user: everything comes from one host.
UserLocateFile(file, prefix) == "https://cdn/" \o file

\* What the user may give as config.locateFile.
LocateFileGiven == {"undefined", "UserLocateFile"}

\* (config && config.locateFile) || defaultLocateFile
Locator(given) == IF given = "undefined" THEN "defaultLocateFile" ELSE given

\* ------------------------------------------------------------------ state
VARIABLES
    config,                 \* Solution.config, fixed by the constructor
    configLocateFile,       \* config.locateFile as the constructor was given it
    locateFile,             \* Solution.locateFile
    packagePath,            \* Solution.packagePath
    needToInitializeWasm,   \* Solution.needToInitializeWasm
    needToInitializeGraph,  \* Solution.needToInitializeGraph
    pendingChanges,         \* Solution.pendingChanges: None or Some(list)
    wasm,                   \* Solution.wasm: id of the MediapipeWasm module
    glCanvas,               \* Solution.glCanvas: id of the canvas
    gl,                     \* Solution.gl: id of the canvas whose context it is
    solutionWasm,           \* Solution.solutionWasm: id of the engine instance
    listener,               \* PoseSolution.listener: id of the callback
    window,                 \* the two window globals the loaders use
    canvasMode,             \* the context mode of the canvas this.glCanvas names
    engines,                \* per SolutionWasm instance, the calls made on it
    env,                    \* counters of what the page was asked to do
    pc,                     \* per promise the user holds, where its chain stands
    kind,                   \* per promise, the call it came from and its video
    rejections,             \* how many promises were rejected so far
    toLoad,                 \* per promise, its injected scripts not yet loaded
    userWants,              \* the wants array a direct user of Solution keeps
    cbLog,                  \* the listener calls made in the step just taken
    poseLog,                \* the PoseSolution.listener calls made in that step
    called,                 \* the synchronous call made in the step just taken
    ops,                    \* how many asynchronous calls were issued
    pre,                    \* the object and the page as the latest awaited call found them
    goog,                   \* the Closure loader: registry, namespaces, debug loader
    bundle                  \* the next call of the bundle's script on the loader

solutionVars ==
    << needToInitializeWasm, needToInitializeGraph, pendingChanges, wasm,
       glCanvas, gl, solutionWasm >>
pageVars == << window, canvasMode, engines, env >>
callVars == << pc, kind, toLoad, rejections >>
fileVars == << configLocateFile, locateFile, packagePath >>
vars ==
    << config, fileVars, solutionVars, listener, pageVars, callVars, userWants,
       cbLog, poseLog, called, ops, pre >>
loaderVars == << goog, bundle >>
allVars == << vars, loaderVars >>

\* this.locateFile(file, prefix)
LocateFile(file, prefix) ==
    IF locateFile = "defaultLocateFile"
    THEN defaultLocateFile(file, prefix)
    ELSE UserLocateFile(file, prefix)

Calls == 1 .. MaxCalls

\* No synchronous call was made in the step just taken.
NoCall == [op |-> "none", options |-> << >>]

\* An engine instance on which nothing has been called yet.  Of the calls of
\* changeOptions it keeps their number and the list given to the last one.
NewEngine(m) ==
    [module |-> m, loadGraph |-> 0, bindTextureToCanvas |-> 0,
     changeOptions |-> [calls |-> 0, last |-> << >>], listeners |-> << >>,
     processFrame |-> 0, delete |-> 0]

\* What has been done so far to the page and to the engines.
Effects == [env |-> env, engines |-> engines, window |-> window]
Snapshot ==
    [needToInitializeWasm |-> needToInitializeWasm,
     needToInitializeGraph |-> needToInitializeGraph,
     pendingChanges |-> pendingChanges,
     gl |-> gl,
     effects |-> Effects]

\* A call issued while nothing is in flight notes how it found things.
Found ==
    IF \A c \in Calls : pc[c] \in {"idle", "resolved", "rejected"}
    THEN Snapshot
    ELSE pre

\* The Solution object as its constructor leaves it.
Fresh ==
    /\ needToInitializeWasm = TRUE
    /\ needToInitializeGraph = TRUE
    /\ pendingChanges = None
    /\ wasm = NoId
    /\ glCanvas = NoId
    /\ gl = NoId
    /\ solutionWasm = NoId
    /\ listener = NoId
    /\ window = [api |-> "undefined", pack |-> "undefined"]
    /\ canvasMode = "absent"
    /\ engines = << >>
    /\ env = [scripts |-> 0, factoryCalls |-> 0, modules |-> 0, fetches |-> 0,
              uploads |-> 0, registered |-> 0, failed |-> {}, requested |-> {}]
    /\ pc = [c \in Calls |-> "idle"]
    /\ kind = [c \in Calls |-> [op |-> "none", video |-> "undefined"]]
    /\ toLoad = [c \in Calls |-> {}]
    /\ rejections = 0
    /\ userWants = << "a", "b" >>
    /\ cbLog = << >>
    /\ poseLog = << >>
    /\ called = NoCall
    /\ ops = [calls |-> 0]
    /\ pre = Snapshot

\* The constructor's part for the files: config.locateFile if there is one,
\* and the directory of the page.
Located(given, pathname) ==
    /\ configLocateFile = given
    /\ locateFile = Locator(given)
    /\ packagePath = getPackagePath(pathname)

\* A config without locateFile, in a page at the root of its site.
Constructed ==
    /\ config \in Configs
    /\ Fresh
    /\ Located("undefined", << "/", "p" >>)

\* The facade exists once the bundle has run.
Init ==
    /\ Constructed
    /\ goog = BundleLoaded
    /\ bundle = Len(Bundle) + 1


\* ---------------------------------------------------------------- helpers
InFlight(c) == pc[c] \notin {"idle", "resolved", "rejected"}
Settled(c) == pc[c] \in {"resolved", "rejected"}
Quiet == \A c \in Calls : ~InFlight(c)

\* A new call gets the first promise slot that is free: one never used, or
\* one whose promise has settled.
CanIssue(c) ==
    /\ ops.calls < MaxCalls
    /\ ~InFlight(c)
    /\ \A d \in Calls : d < c => InFlight(d)

Issued == ops' = [ops EXCEPT !.calls = @ + 1]

Goto(c, where) ==
    /\ pc' = [pc EXCEPT ![c] = where]
    /\ rejections' = IF where = "rejected" THEN rejections + 1 ELSE rejections

\* A step in which no listener is called.
Quietly == cbLog' = << >> /\ poseLog' = << >>

\* A step that is not a synchronous call of the user either.
Silent == Quietly /\ called' = NoCall

\* loadScript(url) for each url: one more script element in the page each.
loadScript(e, urls) ==
    [e EXCEPT !.scripts = @ + Len(urls),
              !.requested = @ \cup {urls[i] : i \in 1 .. Len(urls)}]

\* fetch(url).
fetch(e, url) ==
    [e EXCEPT !.fetches = @ + 1, !.requested = @ \cup {url}]

\* What a loaded script does to its window global: each loader replaces the
\* {locateFile} object under its export name by its factory function.
ScriptExport(file) ==
    IF file = PoseFiles[1] THEN "pack" ELSE "api"

\* A method call on an engine instance that close() has deleted is a use of
\* a freed object: it may throw or go through.
Deleted(e) == e # NoId /\ engines[e].delete > 0
EngineCallThrows(e) ==
    IF e = NoId THEN {TRUE} ELSE IF Deleted(e) THEN {TRUE, FALSE} ELSE {FALSE}

\* ------------------------------------------------- Solution.tryToInitializeWasm
\* From the call to the first yield: the flag test, the two setWindow calls
\* and the injection of every configured script.
\* The flag test left out: the WASM phase runs on every call.
WasmPhaseAlways == TRUE

WasmPhaseNeeded == needToInitializeWasm

\* The phase skipped although the flag is set.
tryToInitializeWasmSkipped(c) ==
    /\ Goto(c, "wasmDone")
    /\ UNCHANGED << window, env, toLoad >>

tryToInitializeWasm(c) ==
    IF ~WasmPhaseNeeded
    THEN /\ Goto(c, "wasmDone")
         /\ UNCHANGED << window, env, toLoad >>
    ELSE /\ window' = [api |-> "config", pack |-> "config"]
         /\ env' = loadScript(env,
                [i \in 1 .. Len(config.files) |->
                    LocateFile(config.files[i], packagePath)])
         /\ toLoad' = [toLoad EXCEPT ![c] = 1 .. Len(config.files)]
         /\ Goto(c, "loading")

\* Solution.initialize(), reached through PoseSolution.initialize().
Initialize(c) ==
    /\ CanIssue(c)
    /\ kind' = [kind EXCEPT ![c] = [op |-> "initialize", video |-> "undefined"]]
    /\ pre' = Found
    /\ Issued
    /\ tryToInitializeWasm(c)
    /\ Silent
    /\ UNCHANGED << config, fileVars, solutionVars, listener, canvasMode, engines,
                    userWants >>
    /\ UNCHANGED loaderVars

\* Solution.processFrame(), called by a direct user of Solution.
ProcessFrame(c) ==
    /\ config # PoseConfig
    /\ CanIssue(c)
    /\ kind' = [kind EXCEPT ![c] = [op |-> "processFrame", video |-> "element"]]
    /\ pre' = Found
    /\ Issued
    /\ tryToInitializeWasm(c)
    /\ Silent
    /\ UNCHANGED << config, fileVars, solutionVars, listener, canvasMode, engines,
                    userWants >>
    /\ UNCHANGED loaderVars

\* PoseSolution.send(inputs): nothing at all unless inputs.video is truthy.
Inputs == {[video |-> "undefined"], [video |-> "null"], [video |-> "element"]}
Truthy(v) == v \notin {"undefined", "null"}
\* The test of inputs.video left out.
AnyVideo(inputs) == TRUE

HasVideo(inputs) == Truthy(inputs.video)

Send(c, inputs) ==
    /\ config = PoseConfig
    /\ CanIssue(c)
    /\ kind' = [kind EXCEPT ![c] = [op |-> "send", video |-> inputs.video]]
    /\ pre' = Found
    /\ Issued
    /\ IF HasVideo(inputs)
       THEN tryToInitializeWasm(c)
       ELSE /\ Goto(c, "resolved")
            /\ UNCHANGED << window, env, toLoad >>
    /\ Silent
    /\ UNCHANGED << config, fileVars, solutionVars, listener, canvasMode, engines,
                    userWants >>
    /\ UNCHANGED loaderVars

\* The 'load' event of one injected script.
ScriptLoad(c, f) ==
    /\ f \in toLoad[c]
    /\ << c, f >> \notin env.failed
    /\ toLoad' = [toLoad EXCEPT ![c] = @ \ {f}]
    /\ window' = [window EXCEPT ![ScriptExport(config.files[f])] = "factory"]
    /\ Silent
    /\ UNCHANGED << config, fileVars, solutionVars, listener, canvasMode,
                    engines, env, pc, kind, rejections, userWants, ops, pre >>
    /\ UNCHANGED loaderVars

\* An injected script fails to load: its 'error' event has no listener, so
\* the promise loadScript returned stays pending.
ScriptError(c, f) ==
    /\ f \in toLoad[c]
    /\ << c, f >> \notin env.failed
    /\ env' = [env EXCEPT !.failed = @ \cup {<< c, f >>}]
    /\ Silent
    /\ UNCHANGED << config, fileVars, solutionVars, listener, window, canvasMode,
                    engines, pc, kind, toLoad, rejections, userWants, ops, pre >>
    /\ UNCHANGED loaderVars

\* The wait for the scripts left out.
ScriptsLoadedAnyway(c) == TRUE

\* Promise.all over the loadScript promises of call c has resolved.
ScriptsLoaded(c) == toLoad[c] = {}

\* After Promise.all: the factories are read from the globals and
\* apiFn(packFn) is called.  A global that is not a function throws.
CallFactory(c) ==
    /\ pc[c] = "loading"
    /\ ScriptsLoaded(c)
    /\ IF window.api = "factory"
       THEN /\ env' = [env EXCEPT !.factoryCalls = @ + 1]
            /\ Goto(c, "factory")
       ELSE /\ Goto(c, "rejected")
            /\ UNCHANGED env
    /\ Silent
    /\ UNCHANGED << config, fileVars, solutionVars, listener, window, canvasMode, engines,
                    kind, toLoad, userWants, ops, pre >>
    /\ UNCHANGED loaderVars

\* The factory promise settles.  On success: this.wasm, the canvas and its
\* context, the engine instance, and the fetch of the graph.
FactoryOutcomes == {"resolve", "reject", "createContextThrows", "constructorThrows"}
ContextModes == {"webgl2", "other", "none"}

FactorySettle(c, outcome, mode) ==
    /\ pc[c] = "factory"
    /\ IF outcome = "reject"
       THEN /\ Goto(c, "rejected")
            /\ UNCHANGED << wasm, glCanvas, solutionWasm, canvasMode, engines, env >>
       ELSE /\ wasm' = env.modules + 1
            /\ glCanvas' = env.modules + 1
            /\ IF outcome = "createContextThrows"
               THEN /\ canvasMode' = "none"
                    /\ env' = [env EXCEPT !.modules = @ + 1]
                    /\ Goto(c, "rejected")
                    /\ UNCHANGED << solutionWasm, engines >>
               ELSE /\ canvasMode' = mode
                    /\ IF outcome = "constructorThrows"
                       THEN /\ env' = [env EXCEPT !.modules = @ + 1]
                            /\ Goto(c, "rejected")
                            /\ UNCHANGED << solutionWasm, engines >>
                       ELSE /\ engines' = Append(engines, NewEngine(wasm'))
                            /\ solutionWasm' = Len(engines) + 1
                            /\ env' = fetch([env EXCEPT !.modules = @ + 1],
                                            LocateFile(config.graph.url, packagePath))
                            /\ Goto(c, "fetching")
    /\ Silent
    /\ UNCHANGED << config, fileVars, needToInitializeWasm, needToInitializeGraph,
                    pendingChanges, gl, listener, window, kind, toLoad,
                    userWants, ops, pre >>
    /\ UNCHANGED loaderVars

\* Solution.loadGraph after the fetch settled: the engine that
\* this.solutionWasm names now is given the graph.
FetchOutcomes == {"resolve", "reject", "loadGraphThrows"}

loadGraph(c, outcome, throws) ==
    /\ pc[c] = "fetching"
    /\ throws \in EngineCallThrows(solutionWasm)
    /\ IF outcome = "reject" \/ throws
       THEN /\ Goto(c, "rejected")
            /\ UNCHANGED engines
       ELSE /\ engines' = [engines EXCEPT ![solutionWasm].loadGraph = @ + 1]
            /\ IF outcome = "loadGraphThrows"
               THEN Goto(c, "rejected")
               ELSE Goto(c, "graphLoaded")
    /\ Silent
    /\ UNCHANGED << config, fileVars, solutionVars, listener, window, canvasMode, env,
                    kind, toLoad, userWants, ops, pre >>
    /\ UNCHANGED loaderVars

\* The last statement of tryToInitializeWasm.
WasmDone(c) ==
    /\ pc[c] = "graphLoaded"
    /\ needToInitializeWasm' = FALSE
    /\ Goto(c, "wasmDone")
    /\ Silent
    /\ UNCHANGED << config, fileVars, needToInitializeGraph, pendingChanges, wasm,
                    glCanvas, gl, solutionWasm, listener, pageVars, kind,
                    toLoad, userWants, ops, pre >>
    /\ UNCHANGED loaderVars

\* -------------------------------------------------------- Solution.setOptions
\* An options object is the list of its own keys, in Object.keys order, each
\* with its value.
OptionObjects ==
    { << [key |-> "poseThreshold", value |-> 0] >>,
      << [key |-> "poseThreshold", value |-> 7] >>,
      << [key |-> "bogus", value |-> 1], [key |-> "selfieMode", value |-> 0] >>,
      << [key |-> "smoothing", value |-> 3], [key |-> "bogus", value |-> 1],
         [key |-> "poseThreshold", value |-> 0] >> }

\* An option is queued when the config map has it with a graphOptionXref.
Recognized(optionsMap, key) ==
    key \in DOMAIN optionsMap /\ IsSome(optionsMap[key].graphOptionXref)

\* The request without the value given for the option.
ChangeRequestNoValue(optionConfig, value) ==
    LET xref == Val(optionConfig.graphOptionXref)
    IN  [calculatorType |-> xref.calculatorType,
         calculatorIndex |-> xref.calculatorIndex,
         fieldName |-> xref.fieldName,
         valueNumber |-> None]

\* Object.assign(Object.assign({}, graphOptionXref), {valueNumber: ...}).
ChangeRequest(optionConfig, value) ==
    LET xref == Val(optionConfig.graphOptionXref)
    IN  [calculatorType |-> xref.calculatorType,
         calculatorIndex |-> xref.calculatorIndex,
         fieldName |-> xref.fieldName,
         valueNumber |-> IF optionConfig.type = NUMBER THEN Some(value) ELSE None]

\* The local pendingChanges array that the loop of setOptions fills.
Requests(optionsMap, options) ==
    LET kept == SelectSeq(options, LAMBDA o : Recognized(optionsMap, o.key))
    IN  [i \in 1 .. Len(kept) |-> ChangeRequest(optionsMap[kept[i].key], kept[i].value)]

\* setOptions that queues the requests and forgets the flag.
setOptionsLeavesFlag(options) ==
    IF config.options = None
    THEN UNCHANGED << needToInitializeGraph, pendingChanges >>
    ELSE LET requests == Requests(Val(config.options), options)
         IN  IF Len(requests) # 0
             THEN /\ UNCHANGED needToInitializeGraph
                  /\ pendingChanges' = Some(requests)
             ELSE UNCHANGED << needToInitializeGraph, pendingChanges >>

\* setOptions without the test that something was queued.
setOptionsUnguarded(options) ==
    IF config.options = None
    THEN UNCHANGED << needToInitializeGraph, pendingChanges >>
    ELSE /\ needToInitializeGraph' = TRUE
         /\ pendingChanges' = Some(Requests(Val(config.options), options))

setOptions(options) ==
    IF config.options = None
    THEN UNCHANGED << needToInitializeGraph, pendingChanges >>
    ELSE LET requests == Requests(Val(config.options), options)
         IN  IF Len(requests) # 0
             THEN /\ needToInitializeGraph' = TRUE
                  /\ pendingChanges' = Some(requests)
             ELSE UNCHANGED << needToInitializeGraph, pendingChanges >>

SetOptions(options) ==
    /\ setOptions(options)
    /\ called' = [op |-> "setOptions", options |-> options]
    /\ Quietly
    /\ UNCHANGED ops
    /\ UNCHANGED << config, fileVars, needToInitializeWasm, wasm, glCanvas, gl,
                    solutionWasm, listener, pageVars, callVars, userWants, pre >>
    /\ UNCHANGED loaderVars

\* ----------------------------------------------- Solution.tryToInitializeGraph
\* The call on the engine left out.
bindTextureToCanvasNot(engine) == engine

bindTextureToCanvas(engine) == [engine EXCEPT !.bindTextureToCanvas = @ + 1]
changeOptions(engine, changeList) ==
    [engine EXCEPT !.changeOptions = [calls |-> @.calls + 1, last |-> changeList]]

\* The attachMultiListener call left out.
attachListenerNot(engine, wants, src, fn) == engine

\* Solution.attachListener: the engine gets a packet listener for the names
\* in wants; src tells whose array wants is.
attachListener(engine, wants, src, fn) ==
    [engine EXCEPT !.listeners =
        Append(@, [wantsCopy |-> wants, src |-> src, listener |-> fn])]

\* The config callback left out.
onRegisterNothing(engine) == engine

\* config.onRegisterListeners(attachFn), when the config has one.
onRegisterListeners(engine) ==
    IF config.onRegisterListeners = "pose"
    THEN attachListener(engine, PoseWants, "literal", "pose")
    ELSE IF config.onRegisterListeners \in {"user", "reentrant"}
    THEN attachListener(engine, userWants, "user", "user")
    ELSE engine

\* this.pendingChanges when the config callback has returned: undefined, or
\* what the setOptions call of the callback has put there.
AfterCallback ==
    IF config.onRegisterListeners = "reentrant"
    THEN Some(Requests(Val(config.options), CallbackOptions))
    ELSE None

ApplyPending(engine) ==
    IF IsSome(pendingChanges)
    THEN changeOptions(engine, Val(pendingChanges))
    ELSE engine

\* canvas.getContext('webgl2'): a canvas in mode webgl2 gives its context, a
\* canvas holding another kind of context gives null, a canvas without a
\* context yet gets one if the browser can make it (created).
getContext(created) ==
    IF canvasMode = "none" /\ created THEN "webgl2" ELSE canvasMode

\* The test of the context left out.
ContextAssumed(mode) == FALSE

\* if (!gl): the canvas gave no webgl2 context.
NoContext(mode) == mode # "webgl2"

GraphPhaseNeeded == needToInitializeGraph

\* Where a call goes once initialize() has resolved.
AfterInitialize(c) ==
    IF kind[c].op = "initialize" THEN Goto(c, "resolved") ELSE Goto(c, "initDone")

\* What may throw inside the graph phase once the context is there: the
\* engine's changeOptions, or the config callback (its attachMultiListener).
GraphFailures == {"none", "changeOptions", "onRegisterListeners"}

ChangeOptionsThrows(fails) == fails = "changeOptions" /\ IsSome(pendingChanges)
RegisterThrows(fails) ==
    fails = "onRegisterListeners" /\ config.onRegisterListeners # "none"

tryToInitializeGraphOr(c, throws, created, fails) ==
    /\ pc[c] = "wasmDone"
    /\ IF ~GraphPhaseNeeded
       THEN /\ AfterInitialize(c)
            /\ UNCHANGED << needToInitializeGraph, pendingChanges, gl,
                            canvasMode, engines, env >>
       ELSE /\ throws \in EngineCallThrows(solutionWasm)
            /\ IF throws
               THEN /\ Goto(c, "rejected")
                    /\ UNCHANGED << needToInitializeGraph, pendingChanges, gl,
                                    canvasMode, engines, env >>
               ELSE IF NoContext(getContext(created))
               THEN /\ canvasMode' = getContext(created)
                    /\ engines' = [engines EXCEPT ![solutionWasm] =
                                       bindTextureToCanvas(@)]
                    /\ AfterInitialize(c)
                    /\ UNCHANGED << needToInitializeGraph, pendingChanges, gl, env >>
               ELSE IF ChangeOptionsThrows(fails)
               THEN /\ canvasMode' = getContext(created)
                    /\ gl' = glCanvas
                    /\ engines' = [engines EXCEPT ![solutionWasm] =
                                       bindTextureToCanvas(@)]
                    /\ Goto(c, "rejected")
                    /\ UNCHANGED << needToInitializeGraph, pendingChanges, env >>
               ELSE IF RegisterThrows(fails)
               THEN /\ canvasMode' = getContext(created)
                    /\ gl' = glCanvas
                    /\ engines' = [engines EXCEPT ![solutionWasm] =
                                       ApplyPending(bindTextureToCanvas(@))]
                    /\ pendingChanges' = None
                    /\ env' = [env EXCEPT !.registered = @ + 1]
                    /\ Goto(c, "rejected")
                    /\ UNCHANGED needToInitializeGraph
               ELSE /\ canvasMode' = getContext(created)
                    /\ gl' = glCanvas
                    /\ engines' = [engines EXCEPT ![solutionWasm] =
                           onRegisterListeners(ApplyPending(bindTextureToCanvas(@)))]
                    /\ pendingChanges' = AfterCallback
                    /\ env' = IF config.onRegisterListeners # "none"
                              THEN [env EXCEPT !.registered = @ + 1]
                              ELSE env
                    /\ needToInitializeGraph' = FALSE
                    /\ AfterInitialize(c)
    /\ Silent
    /\ UNCHANGED << config, fileVars, needToInitializeWasm, wasm, glCanvas,
                    solutionWasm, listener, window, kind, toLoad, userWants, ops, pre >>
    /\ UNCHANGED loaderVars

\* The graph phase with an engine and a callback that do not throw.
tryToInitializeGraph(c, throws, created) ==
    tryToInitializeGraphOr(c, throws, created, "none")

\* ------------------------------------------------------ Solution.processFrame
\* The part after `yield this.initialize()`.
processFrame(c, throws) ==
    /\ pc[c] = "initDone"
    /\ throws \in EngineCallThrows(solutionWasm)
    /\ IF throws
       THEN /\ Goto(c, "rejected")
            /\ UNCHANGED << engines, env >>
       ELSE IF gl = NoId
       THEN /\ engines' = [engines EXCEPT ![solutionWasm] =
                               bindTextureToCanvas(@)]
            /\ Goto(c, "rejected")
            /\ UNCHANGED env
       ELSE /\ engines' = [engines EXCEPT ![solutionWasm] =
                   [bindTextureToCanvas(@) EXCEPT !.processFrame = @ + 1]]
            /\ env' = [env EXCEPT !.uploads = @ + 1]
            /\ Goto(c, "resolved")
    /\ Silent
    /\ UNCHANGED << config, fileVars, solutionVars, listener, window, canvasMode, kind,
                    toLoad, userWants, ops, pre >>
    /\ UNCHANGED loaderVars

\* ------------------------------------------------------- PoseSolution.onResults
Listeners == {1, 2}

OnResults(l) ==
    /\ config = PoseConfig
    /\ listener' = l
    /\ Silent
    /\ UNCHANGED << config, fileVars, solutionVars, pageVars, callVars, userWants, ops, pre >>
    /\ UNCHANGED loaderVars

\* ------------------------------------------------------------- Solution.close
\* The engine test left out: close() never reaches the engine.
closeNothing == UNCHANGED engines
close ==
    IF solutionWasm # NoId
    THEN engines' = [engines EXCEPT ![solutionWasm].delete = @ + 1]
    ELSE UNCHANGED engines

Close ==
    /\ solutionWasm # NoId => engines[solutionWasm].delete < MaxDelete
    /\ close
    /\ called' = [op |-> "close", options |-> << >>]
    /\ Quietly
    /\ UNCHANGED << config, fileVars, solutionVars, listener, window, canvasMode, env,
                    callVars, userWants, ops, pre >>
    /\ UNCHANGED loaderVars

\* ------------------------------------------------- the engine calls a listener
\* A direct user of Solution may change the array it passed as wants.
UserWantsValues == { << "a", "b" >>, << "a" >>, << "x", "b", "c" >> }

MutateWants(w) ==
    /\ config = ListenerConfig
    /\ w # userWants
    /\ userWants' = w
    /\ Silent
    /\ UNCHANGED << config, fileVars, solutionVars, listener, pageVars, callVars, ops, pre >>
    /\ UNCHANGED loaderVars

\* A ResultWasm is what it says it is and what its getter returns.
\* The result vectors the engine hands over for n wanted streams: every kind
\* of result turns up at every index.
ResultOrder ==
    << [is |-> "landmarks", get |-> "l"], [is |-> "rect", get |-> "r"],
       [is |-> "number", get |-> "n"], [is |-> "string", get |-> "s"] >>
ResultVectors(n) ==
    { [i \in 1 .. n |-> ResultOrder[((i + shift) % Len(ResultOrder)) + 1]] :
          shift \in 1 .. Len(ResultOrder) }

extractWasmResult(result) ==
    IF result.is = "number" THEN result.get
    ELSE IF result.is = "rect" THEN result.get
    ELSE IF result.is = "landmarks" THEN result.get
    ELSE "undefined"

\* The array `wants` of a packet listener as it is now.
Wants(pl) == IF pl.src = "user" THEN userWants ELSE pl.wantsCopy

\* The bound of the loop in wasmListener.onResults.
LoopLength(pl) == Len(Wants(pl))

\* values.get(index) past the end is undefined, and extractWasmResult of it
\* throws before the listener is called.
OnResultsThrows(pl, values) == LoopLength(pl) > Len(values)

\* The object that the loop builds: later indexes overwrite earlier ones.
ResultMap(pl, values) ==
    LET n == LoopLength(pl)
        keys == {pl.wantsCopy[i] : i \in 1 .. n}
        last(k) == CHOOSE i \in 1 .. n :
                       /\ pl.wantsCopy[i] = k
                       /\ \A j \in 1 .. n : pl.wantsCopy[j] = k => j <= i
    IN  [k \in keys |-> extractWasmResult(values[last(k)])]

Get(object, key) == IF key \in DOMAIN object THEN object[key] ELSE "undefined"

\* A relay that keeps to the first function registered.
PoseRelayToFirst(results) ==
    << [to |-> 1,
        pose |-> [landmarks |-> Get(results, "pose_landmarks"),
                  rect |-> Get(results, "pose_rect")]] >>

\* The listener PoseSolution attaches: it hands the pose to this.listener,
\* if there is one.
PoseRelay(results) ==
    IF listener # NoId
    THEN << [to |-> listener,
             pose |-> [landmarks |-> Get(results, "pose_landmarks"),
                       rect |-> Get(results, "pose_rect")]] >>
    ELSE << >>

\* The engine e calls onResults(values) of its k-th packet listener.
EngineOnResults(e, k, values) ==
    /\ engines[e].processFrame > 0
    /\ LET pl == engines[e].listeners[k]
       IN  IF OnResultsThrows(pl, values)
           THEN Quietly
           ELSE /\ cbLog' = << [listener |-> pl.listener,
                                results |-> ResultMap(pl, values)] >>
                /\ poseLog' = IF pl.listener = "pose"
                              THEN PoseRelay(ResultMap(pl, values))
                              ELSE << >>
    /\ called' = NoCall
    /\ UNCHANGED << config, fileVars, solutionVars, listener, pageVars, callVars,
                    userWants, ops, pre >>
    /\ UNCHANGED loaderVars

\* ------------------------------------------------------------ specifications
\* What the page and the promise machinery do.
Continue ==
    \/ \E c \in Calls, f \in 1 .. Len(config.files) : ScriptLoad(c, f)
    \/ \E c \in Calls : CallFactory(c)
    \/ \E c \in Calls, outcome \in FactoryOutcomes, mode \in ContextModes :
           FactorySettle(c, outcome, mode)
    \/ \E c \in Calls, outcome \in FetchOutcomes, throws \in BOOLEAN :
           loadGraph(c, outcome, throws)
    \/ \E c \in Calls : WasmDone(c)
    \/ \E c \in Calls, throws \in BOOLEAN, created \in BOOLEAN :
           tryToInitializeGraph(c, throws, created)
    \/ \E c \in Calls, throws \in BOOLEAN : processFrame(c, throws)

\* The engine hands results to a packet listener.
Callback ==
    \E e \in 1 .. Len(engines) :
        \E k \in 1 .. Len(engines[e].listeners) :
            \E values \in ResultVectors(Len(engines[e].listeners[k].wantsCopy)) :
                EngineOnResults(e, k, values)

\* PoseSolution under any interleaving: the user calls initialize() and
\* send() while earlier calls are still in flight.
PoseInit == Init /\ config = PoseConfig
Next ==
    \/ \E c \in Calls : Initialize(c)
    \/ \E c \in Calls, inputs \in Inputs : Send(c, inputs)
    \/ Continue
Spec == PoseInit /\ [][Next]_allVars

\* A Solution whose user awaits every call before doing anything else with
\* the object.
AwaitedNext ==
    \/ \E c \in Calls : Quiet /\ Initialize(c)
    \/ \E c \in Calls, inputs \in Inputs : Quiet /\ Send(c, inputs)
    \/ \E c \in Calls : Quiet /\ ProcessFrame(c)
    \/ \E options \in OptionObjects : Quiet /\ SetOptions(options)
    \/ Quiet /\ Close
    \/ Continue
AwaitedSpec == Init /\ [][AwaitedNext]_allVars

\* The same user with listeners, and an engine that produces results.
ResultsNext ==
    \/ \E c \in Calls : Quiet /\ Initialize(c)
    \/ \E c \in Calls, inputs \in Inputs : Quiet /\ Send(c, inputs)
    \/ \E c \in Calls : Quiet /\ ProcessFrame(c)
    \/ \E l \in Listeners : Quiet /\ OnResults(l)
    \/ \E w \in UserWantsValues : Quiet /\ MutateWants(w)
    \/ Continue
    \/ Callback
ResultsSpec == Init /\ [][ResultsNext]_allVars

\* PoseSolution under any interleaving, with setOptions() and close() called
\* while earlier calls are in flight, and a graph phase that may throw at the
\* engine's changeOptions or inside the config callback.
GraphPhaseThrows ==
    \E c \in Calls, created \in BOOLEAN, fails \in GraphFailures \ {"none"} :
        /\ ChangeOptionsThrows(fails) \/ RegisterThrows(fails)
        /\ tryToInitializeGraphOr(c, FALSE, created, fails)

\* One options object that queues a request and one that queues nothing.
OverlapOptions ==
    { << [key |-> "poseThreshold", value |-> 7] >>,
      << [key |-> "bogus", value |-> 1], [key |-> "selfieMode", value |-> 0] >> }

OverlapNext ==
    \/ \E c \in Calls : Initialize(c)
    \/ \E c \in Calls : Send(c, [video |-> "element"])
    \/ \E options \in OverlapOptions : SetOptions(options)
    \/ Close
    \/ Continue
    \/ GraphPhaseThrows
OverlapSpec == PoseInit /\ [][OverlapNext]_allVars

\* A Solution whose config callback calls setOptions, used with every call
\* awaited.
ReentrantInit ==
    /\ config = ReentrantConfig
    /\ Fresh
    /\ Located("undefined", << "/", "p" >>)
    /\ goog = BundleLoaded
    /\ bundle = Len(Bundle) + 1
ReentrantNext ==
    \/ \E c \in Calls : Quiet /\ Initialize(c)
    \/ \E c \in Calls : Quiet /\ ProcessFrame(c)
    \/ \E options \in OverlapOptions : Quiet /\ SetOptions(options)
    \/ Continue
ReentrantSpec == ReentrantInit /\ [][ReentrantNext]_allVars
\* PoseSolution in a page where an injected script may fail to load.  Every
\* script that was injected loads or fails in the end, the factory promise
\* and the graph fetch settle, and every continuation that is ready runs.
ScriptsSettle ==
    \E c \in Calls, f \in 1 .. Len(config.files) :
        ScriptLoad(c, f) \/ ScriptError(c, f)
PromisesSettle ==
    \/ \E c \in Calls, outcome \in FactoryOutcomes, mode \in ContextModes :
           FactorySettle(c, outcome, mode)
    \/ \E c \in Calls, outcome \in FetchOutcomes, throws \in BOOLEAN :
           loadGraph(c, outcome, throws)
Continuations ==
    \/ \E c \in Calls : CallFactory(c)
    \/ \E c \in Calls : WasmDone(c)
    \/ \E c \in Calls, throws \in BOOLEAN, created \in BOOLEAN :
           tryToInitializeGraph(c, throws, created)
    \/ \E c \in Calls, throws \in BOOLEAN : processFrame(c, throws)
PageNext ==
    \/ \E c \in Calls : Initialize(c)
    \/ \E c \in Calls, inputs \in Inputs : Send(c, inputs)
    \/ ScriptsSettle
    \/ PromisesSettle
    \/ Continuations
PageSpec == PoseInit /\ [][PageNext]_allVars
PageFairSpec ==
    /\ PageSpec
    /\ WF_allVars(ScriptsSettle)
    /\ WF_allVars(PromisesSettle)
    /\ WF_allVars(Continuations)
\* PoseSolution with or without a locateFile of the user, in pages at
\* several places, used with every call awaited.
FilesInit ==
    /\ config = PoseConfig
    /\ Fresh
    /\ \E given \in LocateFileGiven, pathname \in Pathnames :
           Located(given, pathname)
    /\ goog = BundleLoaded
    /\ bundle = Len(Bundle) + 1
FilesNext ==
    \/ \E c \in Calls : Quiet /\ Initialize(c)
    \/ \E c \in Calls, inputs \in Inputs : Quiet /\ Send(c, inputs)
    \/ Continue
FilesSpec == FilesInit /\ [][FilesNext]_allVars
\* ============================================================ the loader runs
\* What the scripts of the page call the loader with, once the bundle has run.
NAME_A == << "a" >>
NAME_A_B == << "a", ".", "b" >>
Namespaces == { TSLIB, NAME_A, NAME_A_B }
ModuleNames ==
    { Str(n) : n \in Namespaces } \cup { Str(<< >>), Str(<< "1", "a" >>), NotAString }
RequiresLists == { << >>, << NAME_A >>, << NAME_A_B >> }
BootstrapLists == { << >>, << NAME_A >>, << NAME_A, NAME_A_B >> }

BundleDone == Len(Bundle) + 1
InScript == goog.frames # << >>

\* The next call of the bundle; an exception ends the script.
BundleStep ==
    /\ bundle <= Len(Bundle)
    /\ goog' = Run(goog, Bundle[bundle])
    /\ bundle' = IF goog'.last.thrown # "none" THEN BundleDone ELSE bundle + 1
    /\ UNCHANGED vars

LoadModule(moduleDef) ==
    /\ bundle = BundleDone
    /\ Len(goog.frames) < MaxDepth
    /\ goog.exportsMade < BundleLoaded.exportsMade + MaxLoads
    /\ goog' = Unwind(goog_loadModule(Calling(goog), moduleDef))
    /\ UNCHANGED << bundle, vars >>

Module(name) ==
    /\ bundle = BundleDone
    /\ goog' = Unwind(goog_module(Calling(goog), name))
    /\ UNCHANGED << bundle, vars >>

DeclareLegacyNamespace ==
    /\ bundle = BundleDone
    /\ goog' = Unwind(declareLegacyNamespace(Calling(goog)))
    /\ UNCHANGED << bundle, vars >>

ModuleDefReturns(returned) ==
    /\ bundle = BundleDone
    /\ InScript
    /\ goog' = Unwind(moduleDefReturns(Calling(goog), returned))
    /\ UNCHANGED << bundle, vars >>

Provide(name) ==
    /\ bundle = BundleDone
    /\ goog' = Unwind(goog_provide(Calling(goog), name))
    /\ UNCHANGED << bundle, vars >>

Require(namespace) ==
    /\ bundle = BundleDone
    /\ goog' = Unwind(goog_require(Calling(goog), namespace))
    /\ UNCHANGED << bundle, vars >>

\* The page sets goog.useStrictRequires.
UseStrictRequires(strict) ==
    /\ bundle = BundleDone
    /\ ~InScript
    /\ strict # goog.useStrictRequires
    /\ goog' = [Calling(goog) EXCEPT !.useStrictRequires = strict]
    /\ UNCHANGED << bundle, vars >>

\* deps.js names each file once.
AddDependency(namespace, requires) ==
    /\ bundle = BundleDone
    /\ ~InScript
    /\ ~getPathFromDeps_(goog, namespace)
    /\ goog' = goog_addDependency(Calling(goog), namespace, requires)
    /\ UNCHANGED << bundle, vars >>

Bootstrap(namespaces) ==
    /\ bundle = BundleDone
    /\ ~InScript
    /\ Len(goog.bootstraps) < MaxBootstraps
    /\ goog' = Unwind(goog_bootstrap(Calling(goog), namespaces))
    /\ UNCHANGED << bundle, vars >>

\* The script element of a file fires 'load': the file has run, and it was a
\* goog.provide of its namespace.
DependencyLoads(namespace) ==
    /\ bundle = BundleDone
    /\ ~InScript
    /\ getPathFromDeps_(goog, namespace)
    /\ goog.dependencies_[namespace].loading
    /\ goog' = loaded_(Unwind(goog_provide(Calling(goog), namespace)), namespace)
    /\ UNCHANGED << bundle, vars >>

Timeout(b) ==
    /\ bundle = BundleDone
    /\ ~InScript
    /\ goog.bootstraps[b].timeouts > 0
    /\ goog' = timeout(goog, b)
    /\ UNCHANGED << bundle, vars >>

LoaderInit ==
    /\ Constructed
    /\ config = PoseConfig
    /\ goog = GoogInit
    /\ bundle = 1

\* The bundle runs, then the scripts of the page declare and require modules
\* and namespaces; no file is known to the debug loader.
LoaderNext ==
    \/ BundleStep
    \/ \E moduleDef \in ModuleDefs : LoadModule(moduleDef)
    \/ \E name \in ModuleNames : Module(name)
    \/ DeclareLegacyNamespace
    \/ \E returned \in ModuleReturns : ModuleDefReturns(returned)
    \/ \E name \in Namespaces : Provide(name)
    \/ \E namespace \in Namespaces : Require(namespace)
    \/ \E strict \in BOOLEAN : UseStrictRequires(strict)
LoaderSpec == LoaderInit /\ [][LoaderNext]_allVars

\* The browser runs every timeout that has been set.
TimeoutExpires == \E b \in 1 .. Len(goog.bootstraps) : Timeout(b)

\* The page with the bundle loaded and a deps.js: files are registered,
\* required, bootstrapped and loaded by script elements.
DebugLoaderInit == Init /\ config = PoseConfig
DebugLoaderNext ==
    \/ \E name \in Namespaces : Provide(name)
    \/ \E namespace \in Namespaces : Require(namespace)
    \/ \E strict \in BOOLEAN : UseStrictRequires(strict)
    \/ \E namespace \in Namespaces, requires \in RequiresLists :
           AddDependency(namespace, requires)
    \/ \E namespaces \in BootstrapLists : Bootstrap(namespaces)
    \/ \E namespace \in Namespaces : DependencyLoads(namespace)
    \/ TimeoutExpires
DebugLoaderSpec == DebugLoaderInit /\ [][DebugLoaderNext]_allVars

DebugLoaderFairSpec == DebugLoaderSpec /\ WF_allVars(TimeoutExpires)


\* ------------------------------------------------------------ measurements
RECURSIVE SumTo(_, _)
SumTo(f, n) == IF n = 0 THEN 0 ELSE f[n] + SumTo(f, n - 1)

\* How often a method was called, over all the engine instances in es.
Count(es, method) == SumTo([i \in 1 .. Len(es) |-> es[i][method]], Len(es))
ChangeOptionsCalls(es) ==
    SumTo([i \in 1 .. Len(es) |-> es[i].changeOptions.calls], Len(es))
Attached(es) ==
    SumTo([i \in 1 .. Len(es) |-> Len(es[i].listeners)], Len(es))

\* The step is one of call c: it is issued, or its continuation runs.
Issues(c) == CanIssue(c) /\ ops'.calls = ops.calls + 1
StepOf(c) == Issues(c) \/ (InFlight(c) /\ pc'[c] # pc[c])
GraphStep(c) == pc[c] = "wasmDone" /\ pc'[c] # "wasmDone"

\* ------------------------------------------------------------------- C1
\* C1: however initialize()/send() calls on one object interleave, as long as
\* no promise has been rejected the loader scripts are injected at most once,
\* apiFn(packFn) is called at most once, at most one engine is created and
\* loadGraph is called at most once.
C1_LoadPhaseOnce ==
    rejections = 0 =>
        /\ env.scripts <= Len(config.files)
        /\ env.factoryCalls <= 1
        /\ Len(engines) <= 1
        /\ Count(engines, "loadGraph") <= 1

\* ------------------------------------------------------------------- C2
\* C2: with awaited calls, an initialize() issued when both phases have
\* completed (both flags false) injects no script, fetches nothing, calls no
\* engine method, registers no listener, leaves the two flags and
\* pendingChanges as they were, and resolves.
C2_IdempotentInitialize ==
    [][\A c \in Calls :
          (/\ StepOf(c)
           /\ kind'[c].op = "initialize"
           /\ ~pre'.needToInitializeWasm
           /\ ~pre'.needToInitializeGraph)
          => /\ Effects' = pre'.effects
             /\ needToInitializeWasm' = pre'.needToInitializeWasm
             /\ needToInitializeGraph' = pre'.needToInitializeGraph
             /\ pendingChanges' = pre'.pendingChanges
             /\ pc'[c] \in {"wasmDone", "resolved"}]_vars

C2_Witness ==
    \E c \in Calls :
        /\ kind[c].op = "initialize"
        /\ pc[c] = "resolved"
        /\ ~pre.needToInitializeWasm
        /\ ~pre.needToInitializeGraph
        /\ Len(engines) > 0
        /\ Effects = pre.effects

\* ------------------------------------------------------------------- C3
ThresholdValues == {0, 7}
ThresholdRequest(v) ==
    [calculatorType |-> "ThresholdingCalculator", calculatorIndex |-> 1,
     fieldName |-> "threshold", valueNumber |-> Some(v)]
ThresholdCall(v) ==
    [op |-> "setOptions", options |-> << [key |-> "poseThreshold", value |-> v] >>]

\* PoseSolution.setOptions({poseThreshold: v}) queues exactly the request for v.
ThresholdQueued ==
    \A v \in ThresholdValues :
        (config = PoseConfig /\ called' = ThresholdCall(v))
        => /\ pendingChanges' = Some(<< ThresholdRequest(v) >>)
           /\ needToInitializeGraph' = TRUE

\* What the graph phase of an initialize() that found the request for v queued
\* has done when it ends.
ThresholdApplied(c, v) ==
    /\ ChangeOptionsCalls(engines') = ChangeOptionsCalls(pre.effects.engines) + 1
    /\ engines'[solutionWasm].changeOptions.last = << ThresholdRequest(v) >>
    /\ pendingChanges' = None
    /\ needToInitializeGraph' = FALSE
    /\ pc'[c] = "resolved"

C4_SendWithoutVideo ==
    [][\A c \in Calls :
          (/\ Issues(c)
           /\ kind'[c].op = "send"
           /\ kind'[c].video \in {"undefined", "null"})
          => /\ UNCHANGED << solutionVars, pageVars, toLoad >>
             /\ pc'[c] = "resolved"]_vars

C4_Witness ==
    \E c, d \in Calls :
        /\ kind[c].op = "send"
        /\ kind[c].video = "null"
        /\ pc[c] = "resolved"
        /\ pc[d] = "fetching"
        /\ needToInitializeWasm

\* ------------------------------------------------------------------- C5
IndexOf(names, name) == CHOOSE i \in 1 .. Len(names) : names[i] = name

\* The object the listener is to get: every name given at attach time, each
\* with what is extracted from the value at its index.
WantedResults(names, values) ==
    [name \in {names[i] : i \in 1 .. Len(names)} |->
        extractWasmResult(values[IndexOf(names, name)])]

\* C5: every onResults(values) of a packet listener calls the attached
\* listener exactly once, with an object whose keys are the names given at
\* attach time, the i-th mapped to what is extracted from values.get(i),
\* also after the caller has changed its wants array.
C5_ListenerGetsWantedKeys ==
    [][\A e \in 1 .. Len(engines) :
          \A k \in 1 .. Len(engines[e].listeners) :
              LET pl == engines[e].listeners[k]
              IN  \A values \in ResultVectors(Len(pl.wantsCopy)) :
                      EngineOnResults(e, k, values)
                      => cbLog' = << [listener |-> pl.listener,
                                      results |-> WantedResults(pl.wantsCopy,
                                                                values)] >>]_vars

\* ------------------------------------------------------------------- C6
\* The step calls processFrame on engine e.
FrameGiven(e) ==
    engines'[e].processFrame >
        (IF e <= Len(engines) THEN engines[e].processFrame ELSE 0)

\* C6: with awaited calls, processFrame is called on an engine only when the
\* loader scripts have loaded, that engine is the one the Solution holds, it
\* has been given the graph, and the graph phase has completed: the context
\* is there, no option change is still queued, the listeners are registered.
C6_FrameAfterInitialisation ==
    [][\A e \in 1 .. Len(engines') :
          FrameGiven(e)
          => /\ e = solutionWasm
             /\ env.scripts >= Len(config.files)
             /\ \A c \in Calls : toLoad[c] = {}
             /\ window = [api |-> "factory", pack |-> "factory"]
             /\ engines[e].loadGraph >= 1
             /\ ~needToInitializeWasm
             /\ ~needToInitializeGraph
             /\ gl # NoId
             /\ pendingChanges = None
             /\ config.onRegisterListeners # "none"
                    => Len(engines[e].listeners) >= 1]_vars

\* The first call on a fresh object is a send()/processFrame() with a video,
\* and it has run the whole initialisation and given the frame.
C6_Witness ==
    \E c \in Calls :
        /\ kind[c].op \in {"send", "processFrame"}
        /\ pc[c] = "resolved"
        /\ ops.calls = 1
        /\ pre.needToInitializeWasm
        /\ pre.effects.env.scripts = 0
        /\ solutionWasm # NoId
        /\ engines[solutionWasm].processFrame = 1

\* ------------------------------------------------------------------- C7
\* The key is one the config map binds to a graphOptionXref.
Bound(key) ==
    IF config.options = None THEN FALSE
    ELSE IF key \notin DOMAIN Val(config.options) THEN FALSE
    ELSE Val(config.options)[key].graphOptionXref # None

\* The call found the WASM phase done, a graph phase completed earlier, and
\* option changes queued since; the object has not been closed.
FoundDirty ==
    /\ ~pre.needToInitializeWasm
    /\ pre.needToInitializeGraph
    /\ pre.gl # NoId
    /\ IsSome(pre.pendingChanges)
    /\ engines[solutionWasm].delete = 0

\* C7: a setOptions() with at least one bound key sets needToInitializeGraph;
\* the next initialize()/processFrame() on an object initialised before (and
\* not closed) runs the graph phase once, giving changeOptions the queued
\* requests and registering the listeners, and does not run the WASM phase.
C7_GraphPhaseAgain ==
    [][/\ (/\ called'.op = "setOptions"
           /\ \E i \in 1 .. Len(called'.options) : Bound(called'.options[i].key))
          => needToInitializeGraph' = TRUE
       /\ \A c \in Calls :
              (GraphStep(c) /\ FoundDirty)
              => /\ Count(engines', "bindTextureToCanvas") =
                        Count(pre.effects.engines, "bindTextureToCanvas") + 1
                 /\ ChangeOptionsCalls(engines') =
                        ChangeOptionsCalls(pre.effects.engines) + 1
                 /\ engines'[solutionWasm].changeOptions.last =
                        Val(pre.pendingChanges)
                 /\ env'.registered = pre.effects.env.registered +
                        (IF config.onRegisterListeners # "none" THEN 1 ELSE 0)
                 /\ Attached(engines') = Attached(pre.effects.engines) +
                        (IF config.onRegisterListeners # "none" THEN 1 ELSE 0)
                 /\ pendingChanges' = None
                 /\ needToInitializeGraph' = FALSE
                 /\ ~needToInitializeWasm'
                 /\ env'.scripts = pre.effects.env.scripts
                 /\ env'.factoryCalls = pre.effects.env.factoryCalls
                 /\ env'.fetches = pre.effects.env.fetches
                 /\ Len(engines') = Len(pre.effects.engines)
                 /\ Count(engines', "loadGraph") =
                        Count(pre.effects.engines, "loadGraph")
                 /\ window' = pre.effects.window
                 /\ pc'[c] # "rejected"]_vars

C7_Witness ==
    \E c \in Calls :
        /\ Settled(c)
        /\ FoundDirty
        /\ ~needToInitializeGraph
        /\ engines[solutionWasm].changeOptions.calls >= 1
        /\ engines[solutionWasm].changeOptions.last = Val(pre.pendingChanges)
        /\ engines[solutionWasm].bindTextureToCanvas >= 2

\* ------------------------------------------------------------------- C8
\* C8: a setOptions() none of whose keys is bound to a graphOptionXref
\* leaves needToInitializeGraph and pendingChanges as they were.
C8_UnrecognizedKeysIgnored ==
    [][(/\ called'.op = "setOptions"
        /\ \A i \in 1 .. Len(called'.options) : ~Bound(called'.options[i].key))
       => UNCHANGED << needToInitializeGraph, pendingChanges >>]_vars

\* Such a call was just made on an object with changes queued.
C8_Witness ==
    /\ called.op = "setOptions"
    /\ \A i \in 1 .. Len(called.options) : ~Bound(called.options[i].key)
    /\ Len(called.options) > 0
    /\ IsSome(config.options)
    /\ IsSome(pendingChanges)

\* ------------------------------------------------------------------- C9
\* C9: when the canvas gives no 'webgl2' context in the graph phase (of an
\* object that has not been closed), initialize() resolves, changeOptions is
\* not called, no listener is registered, needToInitializeGraph stays true
\* and pendingChanges stays as it was; the phase was attempted, and will be
\* again.
C9_SilentWithoutContext ==
    [][\A c \in Calls :
          (/\ GraphStep(c)
           /\ needToInitializeGraph
           /\ engines[solutionWasm].delete = 0
           /\ canvasMode' # "webgl2")
          => /\ pc'[c] = IF kind[c].op = "initialize" THEN "resolved"
                                                       ELSE "initDone"
             /\ ChangeOptionsCalls(engines') = ChangeOptionsCalls(engines)
             /\ Attached(engines') = Attached(engines)
             /\ env'.registered = env.registered
             /\ needToInitializeGraph' = TRUE
             /\ pendingChanges' = pendingChanges
             /\ gl' = gl
             /\ Count(engines', "bindTextureToCanvas") =
                    Count(engines, "bindTextureToCanvas") + 1]_vars

C9_Witness ==
    \E c \in Calls :
        /\ kind[c].op = "initialize"
        /\ pc[c] = "resolved"
        /\ ~needToInitializeWasm
        /\ needToInitializeGraph
        /\ canvasMode = "other"
        /\ IsSome(pendingChanges)
        /\ pendingChanges = pre.pendingChanges
        /\ ChangeOptionsCalls(engines) = 0
        /\ engines[solutionWasm].bindTextureToCanvas = 2

\* ------------------------------------------------------------------ C10
\* C10: a result that the pose packet listener relays goes to the function
\* last given to onResults() and to nothing else, as
\* {pose: {landmarks: results['pose_landmarks'], rect: results['pose_rect']}};
\* with no function given it goes nowhere.
C10_SingleResultsCallback ==
    /\ cbLog = << >> => poseLog = << >>
    /\ \A i \in 1 .. Len(cbLog) :
           cbLog[i].listener = "pose"
           => poseLog =
                  IF listener = NoId
                  THEN << >>
                  ELSE << [to |-> listener,
                           pose |-> [landmarks |-> cbLog[i].results["pose_landmarks"],
                                     rect |-> cbLog[i].results["pose_rect"]]] >>

C10_Witness ==
    /\ listener = 2
    /\ Len(cbLog) = 1
    /\ poseLog = << [to |-> 2, pose |-> [landmarks |-> "l", rect |-> "r"]] >>


\* ------------------------------------------------------------------- C11
\* C11: close() calls delete() once on the engine if and only if an engine
\* has been created, and no other engine method; close() on an object that
\* was never initialised calls no engine method at all; either way nothing is
\* rejected: the promise it returns is resolved.
C11_CloseDeletesEngine ==
    [][called'.op = "close" =>
          /\ Count(engines', "delete") =
                 Count(engines, "delete") + (IF Len(engines) > 0 THEN 1 ELSE 0)
          /\ Len(engines') = Len(engines)
          /\ \A i \in 1 .. Len(engines) :
                 [engines'[i] EXCEPT !.delete = 0] =
                     [engines[i] EXCEPT !.delete = 0]
          /\ Len(engines) = 0 => engines' = engines
          /\ rejections' = rejections
          /\ pc' = pc]_vars

C11_Witness ==
    /\ called.op = "close"
    /\ solutionWasm # NoId
    /\ engines[solutionWasm].delete = 1
    /\ rejections = 0

C11_WitnessNoEngine ==
    /\ called.op = "close"
    /\ Len(engines) = 0


\* ------------------------------------------------------------------- C12
\* The name has been declared: it is registered as a module, or it is a
\* namespace with an object of its own that is not merely implied by a
\* longer name.
Declared(name) ==
    \/ name \in DOMAIN goog.loadedModules_
    \/ name \in goog.global /\ name \notin goog.implicitNamespaces_

\* The step is a call of fn, made where a call of fn is in order:
\* goog.module as the first one of a running goog.loadModule, goog.provide
\* outside any module.
ModuleCalled ==
    /\ goog'.last.fn = "goog.module"
    /\ IsSome(goog.moduleLoaderState_)
    /\ Val(goog.moduleLoaderState_).moduleName = << >>
ProvideCalled ==
    /\ goog'.last.fn = "goog.provide"
    /\ goog.moduleLoaderState_ = None

\* C12: goog.module(name) and goog.provide(name), for a name that is
\* registered in goog.loadedModules_ or provided as a namespace of its own,
\* throw 'Namespace "name" already declared.'; every goog.loadModule that is
\* running is abandoned and goog.loadedModules_ is as it was, so the name
\* still has the exports of the first module.
C12_DeclaredTwice ==
    [][((ModuleCalled \/ ProvideCalled) /\ Declared(goog'.last.arg))
          => /\ goog'.last.thrown = "Namespace already declared."
             /\ goog'.loadedModules_ = goog.loadedModules_
             /\ goog'.frames = << >>
             /\ goog'.last.arg \in DOMAIN goog.loadedModules_
                => goog'.loadedModules_[goog'.last.arg].exports =
                       goog.loadedModules_[goog'.last.arg].exports]_allVars

C12_Witness ==
    /\ goog.last.fn = "goog.module"
    /\ goog.last.arg = TSLIB
    /\ goog.last.thrown = "Namespace already declared."
    /\ goog.exportsMade > BundleLoaded.exportsMade
    /\ goog.loadedModules_[TSLIB].exports = Some(ExportsObject(1))

C12_WitnessProvide ==
    /\ goog.last.fn = "goog.provide"
    /\ goog.last.arg \in { TSLIB, NAME_A }
    /\ goog.last.thrown = "Namespace already declared."


\* ------------------------------------------------------------------- C13
\* Nothing has been registered between loader states g and h.
NothingRegistered(g, h) ==
    /\ h.loadedModules_ = g.loadedModules_
    /\ h.global = g.global
    /\ h.implicitNamespaces_ = g.implicitNamespaces_
    /\ h.dependencies_ = g.dependencies_

InvalidIdentifiers == { NotAString, Str(<< >>), Str(<< "1", "a" >>) }
InModule == IsSome(goog.moduleLoaderState_)

\* C13: in every state the loader reaches, a misuse is thrown back and
\* registers nothing: goog.module with something that is no string, with the
\* empty string or with a string that is no identifier throws 'Invalid module
\* identifier'; goog.module outside goog.loadModule throws; a second
\* goog.module in one module throws; a module definition that returns
\* without having called goog.module makes goog.loadModule throw 'Invalid
\* module name'; goog.provide inside a module throws.
C13_MisuseRejected ==
    LET g == Calling(goog)
    IN  /\ \A id \in InvalidIdentifiers :
               /\ goog_module(g, id).last.thrown = "Invalid module identifier"
               /\ NothingRegistered(goog, goog_module(g, id))
        /\ ~InModule =>
               \A id \in ModuleNames :
                   /\ goog_module(g, id).last.thrown # "none"
                   /\ NothingRegistered(goog, goog_module(g, id))
        /\ (InModule /\ Val(goog.moduleLoaderState_).moduleName # << >>) =>
               \A id \in ModuleNames :
                   /\ goog_module(g, id).last.thrown # "none"
                   /\ NothingRegistered(goog, goog_module(g, id))
        /\ (InModule /\ Val(goog.moduleLoaderState_).moduleName = << >>) =>
               \A returned \in ModuleReturns :
                   /\ moduleDefReturns(g, returned).last.thrown =
                          "Invalid module name"
                   /\ NothingRegistered(goog, moduleDefReturns(g, returned))
        /\ InModule =>
               \A name \in Namespaces :
                   /\ goog_provide(g, name).last.thrown # "none"
                   /\ NothingRegistered(goog, goog_provide(g, name))

\* A page script has called goog.module with a bad identifier inside
\* goog.loadModule.
C13_Witness ==
    /\ goog.last.fn = "goog.module"
    /\ goog.last.thrown = "Invalid module identifier"
    /\ goog.exportsMade > BundleLoaded.exportsMade

C13_WitnessUnnamed ==
    /\ goog.last.fn = "goog.loadModule"
    /\ goog.last.thrown = "Invalid module name"

C13_WitnessTwice ==
    /\ goog.last.thrown = "goog.module may only be called once per module."

C13_WitnessOutside ==
    /\ goog.last.thrown = "Module has been loaded incorrectly."

C13_WitnessProvide ==
    /\ goog.last.thrown = "goog.provide cannot be used within a module."


\* ------------------------------------------------------------------- C14
\* The loader is as it was, but for the note of the call just made.
OnlyNoted == [goog' EXCEPT !.last = goog.last] = goog

\* C14: a goog.require made inside a module, for a name that an earlier
\* goog.loadModule has registered, returns the exports registered under the
\* name and does nothing else.  The bundle registers tslib, then
\* solutions_api, then pose_tracking: each goog.require of its modules
\* returns an exports object, none throws, logs or calls load_, and the
\* bundle runs to its end.
C14_RequireRegistered ==
    [][/\ (/\ goog'.last.fn = "goog.require"
           /\ IsSome(goog.moduleLoaderState_)
           /\ goog'.last.arg \in DOMAIN goog.loadedModules_)
          => /\ goog'.last.thrown = "none"
             /\ goog'.last.returned =
                    goog.loadedModules_[goog'.last.arg].exports
             /\ goog'.last.load_ = 0
             /\ OnlyNoted
       /\ bundle <= Len(Bundle)
          => /\ goog'.last.thrown = "none"
             /\ bundle' = bundle + 1
             /\ Bundle[bundle].fn = "goog.require"
                => /\ IsSome(goog'.last.returned)
                   /\ goog'.last.load_ = 0
                   /\ goog'.last.logged = 0
                   /\ OnlyNoted
             /\ bundle' = BundleDone
                => /\ goog'.loadedModules_[TSLIB].exports =
                          Some(ExportsObject(1))
                   /\ goog'.loadedModules_[SOLUTIONS_API].exports =
                          Some(ExportsObject(2))
                   /\ goog'.loadedModules_[POSE_TRACKING].exports =
                          Some(ExportsObject(3))]_allVars

\* pose_tracking has required solutions_api.
C14_Witness ==
    /\ bundle <= Len(Bundle)
    /\ goog.last.fn = "goog.require"
    /\ goog.last.arg = SOLUTIONS_API
    /\ goog.last.returned = Some(ExportsObject(2))

\* A module of the page has required tslib.
C14_WitnessPage ==
    /\ bundle = BundleDone
    /\ IsSome(goog.moduleLoaderState_)
    /\ goog.last.fn = "goog.require"
    /\ goog.last.arg = TSLIB
    /\ goog.last.returned = Some(ExportsObject(1))


\* ------------------------------------------------------------------- C15
\* Every namespace of the list has a file that is marked as loaded.
AllLoaded(g, namespaces) ==
    \A i \in 1 .. Len(namespaces) :
        /\ namespaces[i] \in DOMAIN g.dependencies_
        /\ g.dependencies_[namespaces[i]].loaded_
SomeUnregistered(namespaces) ==
    \E i \in 1 .. Len(namespaces) : namespaces[i] \notin DOMAIN goog.dependencies_
BootstrapCalled == goog'.last.fn = "goog.bootstrap"

\* C15: the callback of goog.bootstrap is called only when a timeout set for
\* it expires, never inside goog.bootstrap or the load of a file, and never
\* twice; its timeout is set once, and only when every namespace of the
\* list has a file marked as loaded.  With an empty list, or with every file
\* loaded already, goog.bootstrap itself sets the timeout.  A namespace that
\* no file is registered for makes goog.bootstrap throw before it has
\* required anything.  A timeout that is set expires, and the callback is
\* called.
C15_BootstrapCallback ==
    /\ [][/\ \A b \in 1 .. Len(goog.bootstraps) :
                 /\ goog'.bootstraps[b].calls # goog.bootstraps[b].calls
                    => /\ goog'.last.fn = "callback"
                       /\ goog'.bootstraps[b].calls = 1
                       /\ goog.bootstraps[b].timeouts = 1
                       /\ goog'.bootstraps[b].timeouts = 0
                 /\ goog'.bootstraps[b].timeouts > goog.bootstraps[b].timeouts
                    => goog.bootstraps[b].calls = 0
          /\ BootstrapCalled =>
                 IF SomeUnregistered(goog'.last.namespaces)
                 THEN /\ goog'.last.thrown = "Unregonized namespace"
                      /\ goog'.last.load_ = 0
                      /\ [goog' EXCEPT !.last = goog.last] = goog
                 ELSE /\ Len(goog'.bootstraps) = Len(goog.bootstraps) + 1
                      /\ LET new == goog'.bootstraps[Len(goog'.bootstraps)]
                         IN  /\ new.calls = 0
                             /\ AllLoaded(goog, goog'.last.namespaces)
                                => new.timeouts = 1]_allVars
    /\ [](\A b \in 1 .. Len(goog.bootstraps) :
              /\ goog.bootstraps[b].timeouts + goog.bootstraps[b].calls <= 1
              /\ goog.bootstraps[b].timeouts + goog.bootstraps[b].calls = 1
                 => AllLoaded(goog, goog.bootstraps[b].namespaces))
    /\ \A b \in 1 .. MaxBootstraps :
           (IF Len(goog.bootstraps) >= b
            THEN goog.bootstraps[b].timeouts = 1
            ELSE FALSE)
               ~> (IF Len(goog.bootstraps) >= b
                   THEN goog.bootstraps[b].calls = 1
                   ELSE FALSE)

\* The callback was called after two files were loaded for it.
C15_Witness ==
    /\ Len(goog.bootstraps) > 0
    /\ goog.bootstraps[1].namespaces = << NAME_A, NAME_A_B >>
    /\ goog.bootstraps[1].calls = 1
    /\ goog.last.fn = "callback"

C15_WitnessEmpty ==
    /\ Len(goog.bootstraps) > 0
    /\ goog.bootstraps[1].namespaces = << >>
    /\ goog.bootstraps[1].timeouts = 1
    /\ goog.last.fn = "goog.bootstrap"

C15_WitnessUnregistered ==
    /\ goog.last.fn = "goog.bootstrap"
    /\ goog.last.thrown = "Unregonized namespace"


\* ------------------------------------------------------------------- C16
\* The namespace is unknown: not declared, and no file is registered for it.
Unknown(namespace) ==
    /\ ~Declared(namespace)
    /\ namespace \notin DOMAIN goog.dependencies_

\* C16: wherever the loader stands, goog.require of an unknown namespace
\* writes one error to the console, registers nothing and leaves
\* goog.moduleLoaderState_ as it was; it throws if and only if
\* goog.useStrictRequires is true, and returns null otherwise.  A module
\* that has made such a goog.require without the strict flag goes on being
\* loaded.
C16_RequireUnknown ==
    /\ [](\A namespace \in Namespaces :
              Unknown(namespace) =>
                  LET required == goog_require(Calling(goog), namespace)
                  IN  /\ required.last.logged = 1
                      /\ required.last.returned = None
                      /\ (required.last.thrown # "none") = goog.useStrictRequires
                      /\ required.moduleLoaderState_ = goog.moduleLoaderState_
                      /\ NothingRegistered(goog, required))
    /\ [][(/\ goog'.last.fn = "goog.require"
           /\ Unknown(goog'.last.arg)
           /\ ~goog.useStrictRequires)
          => /\ goog'.last.logged = 1
             /\ goog'.last.thrown = "none"
             /\ goog'.moduleLoaderState_ = goog.moduleLoaderState_
             /\ goog'.frames = goog.frames]_allVars

\* A module of the page has required an unknown namespace.
C16_Witness ==
    /\ goog.last.fn = "goog.require"
    /\ goog.last.logged = 1
    /\ goog.last.thrown = "none"
    /\ goog.last.returned = None
    /\ IsSome(goog.moduleLoaderState_)

C16_WitnessStrict ==
    /\ goog.last.fn = "goog.require"
    /\ goog.last.logged = 1
    /\ goog.last.thrown = "goog.require could not find"
    /\ goog.exportsMade > BundleLoaded.exportsMade


\* ------------------------------------------------------------------- C17
\* C17: at most one SolutionWasm instance has ever been created, and once
\* there is one this.solutionWasm refers to it.
C17_SingleEngine ==
    /\ Len(engines) <= 1
    /\ Len(engines) = 1 => solutionWasm = 1


\* ------------------------------------------------------------------- C18
\* A method that needs the graph has been called on the engine.
GraphUsed(engine) ==
    \/ engine.processFrame > 0
    \/ engine.bindTextureToCanvas > 0
    \/ engine.changeOptions.calls > 0
    \/ Len(engine.listeners) > 0

\* C18: processFrame, bindTextureToCanvas, changeOptions and
\* attachMultiListener are only ever called on an engine instance on which
\* loadGraph has been called, and loadGraph is never called on an instance
\* that has listeners attached.
C18_GraphLoadedFirst ==
    /\ [](\A e \in 1 .. Len(engines) :
              GraphUsed(engines[e]) => engines[e].loadGraph > 0)
    /\ [][\A e \in 1 .. Len(engines) :
              engines'[e].loadGraph > engines[e].loadGraph
                  => Len(engines[e].listeners) = 0]_vars


\* ------------------------------------------------------------------- C19
\* The step is the one that resolves the processFrame() or send() of call c.
FrameResolved(c) ==
    /\ kind[c].op \in { "processFrame", "send" }
    /\ pc[c] = "initDone"
    /\ pc'[c] = "resolved"

OptionOf(request) ==
    << request.calculatorType, request.calculatorIndex, request.fieldName >>
Queued(pending) ==
    IF IsSome(pending)
    THEN { OptionOf(Val(pending)[i]) : i \in 1 .. Len(Val(pending)) }
    ELSE {}

\* C20: change requests queue up across setOptions() calls: an option that
\* is queued when setOptions() is called is still queued after the call, so
\* the change list of the next graph phase has every recognized option given
\* since the last one.
C20_ChangesQueueUp ==
    [][called'.op = "setOptions" =>
          Queued(pendingChanges) \subseteq Queued(pendingChanges')]_vars


\* ------------------------------------------------------------------- C21
\* C21: in every reachable state of a Solution, when pendingChanges is
\* defined needToInitializeGraph is true: no queued change request is left
\* behind a clean graph flag.
C21_QueuedMeansDirty == IsSome(pendingChanges) => needToInitializeGraph


\* ------------------------------------------------------------------- C22
\* A graph phase completes in the step that clears needToInitializeGraph.
GraphPhaseCompletes == needToInitializeGraph /\ ~needToInitializeGraph'
HasCallback == config.onRegisterListeners # "none"
ListenersOf(es, e) == IF e \in DOMAIN es THEN es[e].listeners ELSE << >>

C22_WitnessAborted ==
    /\ HasCallback
    /\ solutionWasm # NoId
    /\ engines[solutionWasm].bindTextureToCanvas > 0
    /\ needToInitializeGraph
    /\ env.registered = 0
    /\ \E c \in Calls : pc[c] = "resolved" /\ kind[c].op = "initialize"


\* ------------------------------------------------------------------- C23
\* The part of processFrame() after initialize() runs for call c.
FrameStep(c) == pc[c] = "initDone" /\ pc'[c] # "initDone"

\* C23: while the canvas gives no 'webgl2' context this.gl stays undefined,
\* and every processFrame() that gets past initialize() is rejected without
\* the engine's processFrame being called and without a frame being uploaded.
C23_NoFrameWithoutContext ==
    /\ [][\A c \in Calls :
              (FrameStep(c) /\ canvasMode # "webgl2")
              => /\ pc'[c] = "rejected"
                 /\ Count(engines', "processFrame") = Count(engines, "processFrame")
                 /\ env'.uploads = env.uploads]_allVars
    /\ []((canvasMode # "webgl2") => (gl = NoId /\ env.uploads = 0))

\* Two calls in a row were rejected for want of a context: each of them bound
\* the texture twice, in its graph phase and in processFrame.
C23_Witness ==
    /\ ops.calls = MaxCalls
    /\ rejections = MaxCalls
    /\ pc[1] = "rejected" /\ kind[1].op \in {"send", "processFrame"}
    /\ ~needToInitializeWasm
    /\ canvasMode \in {"other", "none"}
    /\ engines[solutionWasm].delete = 0
    /\ engines[solutionWasm].bindTextureToCanvas = 2 * MaxCalls
    /\ engines[solutionWasm].processFrame = 0


\* ------------------------------------------------------------------- C24
\* Call c is rejected in its WASM phase: a window global is no factory, the
\* factory promise rejects, createContext or the SolutionWasm constructor
\* throws, the graph fetch rejects, or loadGraph throws.
WasmPhaseFails(c) ==
    pc[c] \in {"loading", "factory", "fetching"} /\ pc'[c] = "rejected"

\* C24: with awaited calls, a call whose WASM phase fails is rejected and
\* leaves needToInitializeWasm and needToInitializeGraph true; and an
\* initialize() that finds needToInitializeWasm true sets both window
\* globals and injects every configured script again.
C24_WasmPhaseRetried ==
    [][\A c \in Calls :
          /\ WasmPhaseFails(c)
             => /\ needToInitializeWasm /\ needToInitializeWasm'
                /\ needToInitializeGraph /\ needToInitializeGraph'
                /\ rejections' = rejections + 1
          /\ (Issues(c) /\ kind'[c].op = "initialize" /\ needToInitializeWasm)
             => /\ pc'[c] = "loading"
                /\ env'.scripts = env.scripts + Len(config.files)
                /\ toLoad'[c] = 1 .. Len(config.files)
                /\ window' = [api |-> "config", pack |-> "config"]]_allVars

\* The fetch of the graph failed, and the next initialize() has injected the
\* scripts a second time.
C24_Witness ==
    \E c \in Calls :
        /\ kind[c].op = "initialize"
        /\ pc[c] = "loading"
        /\ rejections = 1
        /\ Len(engines) = 1
        /\ engines[1].loadGraph = 0
        /\ env.fetches = 1
        /\ env.scripts = 2 * Len(config.files)
        /\ needToInitializeWasm /\ needToInitializeGraph


\* ------------------------------------------------------------------- C25
\* C25: every initialize() call settles in the end, in a page where every
\* injected script loads or fails to load and where the factory promise and
\* the graph fetch settle.
C25_InitializeSettles ==
    \A c \in Calls : (kind[c].op = "initialize" /\ InFlight(c)) ~> Settled(c)


\* ------------------------------------------------------------------- C26
\* C26: once close() has deleted an engine instance nothing is called on that
\* instance again, delete() included; and from a close() on, whatever was in
\* flight, every engine instance there is has been deleted.
C26_ClosedForGood ==
    /\ [][\A e \in DOMAIN engines :
              engines[e].delete > 0 => engines'[e] = engines[e]]_allVars
    /\ [](called.op = "close"
            => [](\A e \in DOMAIN engines : engines[e].delete > 0))


\* ------------------------------------------------------------------- C27
\* C27: with awaited calls, the steps of a WASM phase come in order.  The
\* step that injects the scripts, all of them at once, has set both window
\* globals to {locateFile}; the globals are read and the factory is called,
\* once and with the pack loader, only when every script of the call has
\* loaded; an engine instance is created only with the canvas and its
\* context there; and needToInitializeWasm is cleared only by a call whose
\* loadGraph has returned.
C27_WasmPhaseInOrder ==
    [][/\ env'.scripts # env.scripts
          => /\ window' = [api |-> "config", pack |-> "config"]
             /\ env'.scripts = env.scripts + Len(config.files)
             /\ \E c \in Calls :
                    /\ pc[c] \in {"idle", "resolved", "rejected"}
                    /\ pc'[c] = "loading"
                    /\ toLoad'[c] = 1 .. Len(config.files)
       /\ \A c \in Calls :
              (pc[c] = "loading" /\ pc'[c] # "loading")
              => /\ toLoad[c] = {}
                 /\ pc'[c] = IF window.api = "factory" THEN "factory" ELSE "rejected"
       /\ env'.factoryCalls # env.factoryCalls
          => /\ env'.factoryCalls = env.factoryCalls + 1
             /\ window.api = "factory"
             /\ window.pack = "factory"
             /\ \E c \in Calls :
                    pc[c] = "loading" /\ pc'[c] = "factory" /\ toLoad[c] = {}
       /\ \A c \in Calls :
              (pc[c] = "factory" /\ pc'[c] # "factory")
              => env'.factoryCalls = env.factoryCalls
       /\ Len(engines') # Len(engines)
          => /\ Len(engines') = Len(engines) + 1
             /\ solutionWasm' = Len(engines')
             /\ glCanvas' # NoId /\ glCanvas' = wasm'
             /\ canvasMode' # "absent"
             /\ engines'[solutionWasm'].module = wasm'
             /\ \E c \in Calls : pc[c] = "factory" /\ pc'[c] = "fetching"
       /\ needToInitializeWasm' # needToInitializeWasm
          => /\ needToInitializeWasm
             /\ Count(engines, "loadGraph") > 0
             /\ \E c \in Calls : pc[c] = "graphLoaded" /\ pc'[c] = "wasmDone"
       /\ \A c \in Calls :
              pc'[c] = "graphLoaded" => pc[c] \in {"fetching", "graphLoaded"}]_allVars

\* A WASM phase has gone through all its steps.
C27_Witness ==
    /\ ~needToInitializeWasm
    /\ env.scripts = Len(config.files)
    /\ env.factoryCalls = 1
    /\ window = [api |-> "factory", pack |-> "factory"]
    /\ Len(engines) = 1
    /\ engines[1].loadGraph = 1
    /\ glCanvas # NoId


\* ------------------------------------------------------------------- C28
\* Where a file is to be asked for: where config.locateFile says when the
\* user gave one, and else packagePath followed by the file name.
UrlOf(file) ==
    IF configLocateFile = "undefined"
    THEN packagePath \o file
    ELSE UserLocateFile(file, packagePath)
PoseScripts ==
    { "pose_tracking_solution_packed_assets_loader.js",
      "pose_tracking_solution_wasm_bin.js" }

\* C28: every URL asked for is UrlOf of a file of the config.  For
\* PoseSolution the step that injects the scripts asks for its two loader
\* scripts, the step that fetches asks for 'pose_web.binarypb', and nothing
\* else is ever asked for.
C28_FilesLocated ==
    /\ [][/\ env'.scripts # env.scripts
             => env'.requested = env.requested \cup {UrlOf(f) : f \in PoseScripts}
          /\ env'.fetches # env.fetches
             => env'.requested = env.requested \cup {UrlOf("pose_web.binarypb")}
          /\ (env'.scripts = env.scripts /\ env'.fetches = env.fetches)
             => env'.requested = env.requested]_allVars
    /\ [](/\ env.requested \subseteq
                {UrlOf(f) : f \in PoseScripts \cup {"pose_web.binarypb"}}
          /\ env.scripts > 0 => {UrlOf(f) : f \in PoseScripts} \subseteq env.requested
          /\ env.fetches > 0 => UrlOf("pose_web.binarypb") \in env.requested)

\* The three files were asked for below the directory of the page.
C28_Witness ==
    /\ configLocateFile = "undefined"
    /\ ~needToInitializeWasm
    /\ env.requested =
           { "/a/pose_tracking_solution_packed_assets_loader.js",
             "/a/pose_tracking_solution_wasm_bin.js",
             "/a/pose_web.binarypb" }

\* The three files were asked for where the user's locateFile put them.
C28_WitnessUser ==
    /\ configLocateFile = "UserLocateFile"
    /\ ~needToInitializeWasm
    /\ env.requested =
           { "https://cdn/pose_tracking_solution_packed_assets_loader.js",
             "https://cdn/pose_tracking_solution_wasm_bin.js",
             "https://cdn/pose_web.binarypb" }

=============================================================================
